---- MODULE Spec2Model ----
(***************************************************************************)
(* One device connection of the go-xiaozhi gateway in translating mode     *)
(* (provider "openai"): the device read loop (ConnWrapper.ReadLoop), the   *)
(* upstream read loop (the goroutine of XiaozhiHandler.InitProxy), the     *)
(* write loop, the idle watcher and the handler-done watcher, together     *)
(* with the write queue, the two sockets, the session and the pacing       *)
(* clock they share.                                                       *)
(*                                                                         *)
(* A nil pointer is the empty sequence Nil, a non-nil pointer a sequence   *)
(* of one record.  PCM buffers are run-length sequences of                 *)
(* [resp, n]: n consecutive samples that arrived during response resp.     *)
(* Variables marked "history" are not program state: they record what was  *)
(* read and written so that the properties can speak about it.             *)
(***************************************************************************)
EXTENDS Integers, Sequences, FiniteSets, TLC

\* ------------------------------------------------------------------ bounds
\* Capacity of the write queue.  The program uses 1024 (WriteQueueSize); the
\* model scales it down so that a full queue is reachable.  No rule of the
\* program depends on the value.
WriteQueueSize == 2
\* Upstream messages the upstream read loop reads in one run.
MaxUp == 3
\* Device messages the device read loop reads in one run.
MaxDev == 4
\* Device messages read while the translation is explored.
MaxTransDev == 2
\* Device messages read while the data path or the lifetime is explored.
MaxStreamDev == 1
\* Upstream messages read while the translation is explored.
MaxTransUp == 2
\* Upstream messages read in SpecDownlink.
MaxDownUp == 4
\* Last wall-clock instant (ms) at which a message may still be read.
MaxNow == 61
\* Upstream messages read while the connection's lifetime is explored.
MaxShutUp == 2
\* Idle timeouts (ms) a connection may be built with; 0 = WithIdleTimeout not used.
IdleTimeouts == {0, 5000}
\* Upstream messages read while the idle timer is explored.
MaxIdleUp == 1
\* Last wall-clock instant (ms) reached while the idle timer is explored.
MaxIdleNow == 6001
\* Idle timeouts (ms) of the connections on which the idle timer is explored.
TimedIdleTimeouts == {5000}
\* Wall-clock time (ms) that may pass in one step while no timer is due.
TickSteps == {500, 1000}

\* ------------------------------------------------------- program constants
DefaultDownPcmSR == 24000
DeviceOpusRate24k == 24000
DefaultUpPcmSR == 24000
\* The rune literal of handleAsrDone.
SmilingFace == 128522
\* Period (ms) of WriteLoop's activeTimer.
PingTick == 1000

Nil == <<>>

\* Wall-clock time (ms) that may pass between two readings of the clock.
Elapse == {0, 60}
\* frame_duration values (ms) a device announces in a valid hello.
FrameDurations == {20, 60}
\* PCM payload sizes (bytes) of a response.audio.delta that base64-decodes.
DeltaBytes == {1440, 2880}

VARIABLES
  idleTimeout,        \* ConnWrapper.idleTimeout: 0 = no idle timer
  idleTimer,          \* ConnWrapper.idleTimer: "nil", "armed" (running), "stopped" (expired or stopped)
  timerC,             \* a value is waiting in idleTimer.C
  idleAt,             \* the instant at which the running idle timer expires
  pingAt,             \* the instant at which WriteLoop's activeTimer expires
  lastOp,             \* history: instant of the last device message read or event drained
  ctxDone,            \* the connection context (r.Context()) is cancelled
  sessDone,           \* ApiSession.ctx is cancelled
  conn,               \* device socket: "open" or "closed"
  apiConn,            \* upstream socket: "open", "down" (peer gone), "closed" (by the gateway)
  writeQueue,         \* XiaozhiHandler.writeQueue: the buffered channel's content
  chClosed,           \* close(writeQueue) has run
  closed,             \* XiaozhiHandler.closed (atomic.Bool)
  CliConfig,          \* ApiSession.CliConfig: Nil or <<ClientConfig>>
  sessID,             \* ApiSession.ID
  audioConverter,     \* XiaozhiHandler.audioConverter: Nil or <<Converter>>
  firstDeltaTs,       \* XiaozhiHandler.firstDeltaTs
  totalOpusDuration,  \* XiaozhiHandler.totalOpusDuration
  now,                \* wall clock, ms
  pcRead,             \* device read loop: "read", "done", "close", "closeQueue", "closeStore", "returned"
  pcWrite,            \* write loop: "select", "returned"
  pcIdle,             \* idle watcher: "start", "wait", "returned"
  pcDone,             \* handler-done watcher: "wait", "returned"
  pcUp,               \* upstream read loop: "read", "sleep", "check", "send", "returned", "panicked"
  upTodo,             \* events the running upstream handler still passes to WriteRespEvent
  wakeAt,             \* end of the pacing sleep
  nUp,                \* history: upstream messages read
  nDev,               \* history: device messages read
  upIn,               \* history: the last upstream message read (Nil: none yet)
  devIn,              \* history: the last device message read (Nil: none yet)
  curResp,            \* history: number of the response in progress (response.done ends it)
  turn,               \* history: committed/response.done alternation of the upstream messages read
  nEnq,               \* history: events sent on the write queue
  written,            \* history: data messages written on the device socket, in order
  apiSent,            \* history: events written on the upstream socket, in order
  closeCount,         \* history: executions of close(writeQueue)
  panics,             \* history: tasks that ended in an unrecovered panic.  A panic
                      \* ends the process; the model records it and lets the other
                      \* tasks go on, so it has every behaviour up to the panic.
  codec,              \* a codec function at work: Nil, or its input, wire text and result
  resampler           \* a goResampler at work: Nil, or its fields, input left and output

vars == <<idleTimeout, idleTimer, timerC, idleAt, pingAt, lastOp, ctxDone, sessDone, conn, apiConn, writeQueue,
          chClosed, closed, CliConfig, sessID, audioConverter, firstDeltaTs,
          totalOpusDuration, now, pcRead, pcWrite, pcIdle, pcDone, pcUp, upTodo,
          wakeAt, nUp, upIn, nDev, devIn, curResp, turn, nEnq, written, apiSent, closeCount,
          panics, codec, resampler>>

\* Groups for UNCHANGED.
\* The codecs and the resampler on their own, outside a connection.
pureVars == <<codec, resampler>>
connVars == <<idleTimeout, pureVars, ctxDone, sessDone, conn, apiConn>>
timerVars == <<idleTimer, timerC, idleAt, pingAt, lastOp>>
queueVars == <<writeQueue, chClosed, closed, nEnq, closeCount>>
sessVars == <<CliConfig, sessID, audioConverter>>
paceVars == <<firstDeltaTs, totalOpusDuration, now>>
upVars == <<pcUp, upTodo, wakeAt, nUp, upIn, curResp, turn>>
devVars == <<pcRead, nDev, devIn, apiSent>>

\* --------------------------------------------------------------- PCM runs
RECURSIVE RunLen(_)
RunLen(runs) ==
  IF runs = <<>> THEN 0 ELSE Head(runs).n + RunLen(Tail(runs))

\* The first k samples of runs (k <= RunLen(runs)).
RECURSIVE TakeRuns(_, _)
TakeRuns(runs, k) ==
  IF k = 0 \/ runs = <<>> THEN <<>>
  ELSE IF Head(runs).n <= k
       THEN <<Head(runs)>> \o TakeRuns(Tail(runs), k - Head(runs).n)
       ELSE <<[Head(runs) EXCEPT !.n = k]>>

\* runs without its first k samples.
RECURSIVE DropRuns(_, _)
DropRuns(runs, k) ==
  IF k = 0 \/ runs = <<>> THEN runs
  ELSE IF Head(runs).n <= k
       THEN DropRuns(Tail(runs), k - Head(runs).n)
       ELSE <<[Head(runs) EXCEPT !.n = @ - k]>> \o Tail(runs)

\* append(c.delta, samples...): adjacent samples of one response are one run.
AppendRun(runs, r, n) ==
  IF n = 0 THEN runs
  ELSE IF runs # <<>> /\ runs[Len(runs)].resp = r
       THEN [runs EXCEPT ![Len(runs)].n = @ + n]
       ELSE Append(runs, [resp |-> r, n |-> n])

RunResps(runs) == {runs[i].resp : i \in 1..Len(runs)}

\* ------------------------------------------------------------ device events
\* A message for the device.  seq and src are history fields: the position in
\* the order of enqueueing and the number of the upstream message whose
\* handler produced it; resp is the response in progress when it was built;
\* resps and dur are the content of a binary frame.  audio_params is Nil or
\* <<AudioParams>>.
ServerEvent(type, state) ==
  [type |-> type, state |-> state, error |-> "", text |-> "", emotion |-> "",
   session_id |-> "", audio_params |-> Nil, resp |-> 0, resps |-> {},
   dur |-> 0, seq |-> 0, src |-> 0]

\* ServerEventBase{Type, SessionId: w.GetSessionId()} of an upstream handler.
ServerEventBase(type, state, sid) ==
  [ServerEvent(type, state) EXCEPT !.session_id = sid]

\* strconv.Itoa: the decimal digits of n >= 0.
Digit(d) ==
  CASE d = 0 -> "0" [] d = 1 -> "1" [] d = 2 -> "2" [] d = 3 -> "3"
    [] d = 4 -> "4" [] d = 5 -> "5" [] d = 6 -> "6" [] d = 7 -> "7"
    [] d = 8 -> "8" [] d = 9 -> "9"

RECURSIVE Itoa(_)
Itoa(n) == IF n < 10 THEN Digit(n) ELSE Itoa(n \div 10) \o Digit(n % 10)

ServerEventError(msg) == [ServerEvent("error", "") EXCEPT !.error = msg]

\* A binary Opus frame encoded from one chunk of PCM.
BinFrame(runs, rate) ==
  [ServerEvent("bin", "") EXCEPT !.resps = RunResps(runs),
                                 !.dur = (RunLen(runs) * 1000) \div rate]

IsServerEvent(ev) == ev.type \in {"error", "hello", "stt", "llm", "tts"}

\* ------------------------------------------------------------ pacing clock
\* The part of the handler's state an upstream handler works on:
\*   todo   events it passes to WriteRespEvent, in order
\*   pc     "ok", "sleep" (suspended in time.Sleep) or "panic"
\*   wake   end of the sleep
\* and the fields of XiaozhiHandler / ApiSession / Converter it may assign.
HandlerState ==
  [todo |-> <<>>, pc |-> "ok", wake |-> 0, sessID |-> sessID,
   first |-> firstDeltaTs, total |-> totalOpusDuration, conv |-> audioConverter]

\* Mutant of resetFrameTs: the timestamp of the first delta is kept.
resetFrameTsTotal(h) == [h EXCEPT !.total = 0]

resetFrameTs(h) == [h EXCEPT !.first = 0, !.total = 0]

setFrameTs(h, t) == IF h.first # 0 THEN h ELSE [h EXCEPT !.first = t]

\* Mutant of getWait: half of the remaining playback time.
getWaitHalf(first, total, t) ==
  IF first = 0 THEN 0
  ELSE IF total = 0 THEN 0
  ELSE IF total - (t - first) > 0 THEN (total - (t - first)) \div 2
  ELSE 0

getWait(first, total, t) ==
  IF first = 0 THEN 0
  ELSE IF total = 0 THEN 0
  ELSE IF total - (t - first) > 0 THEN total - (t - first)
  ELSE 0

\* ---------------------------------------------------------------- Converter
\* NewGoResampler: the error it returns ("" = nil).
NewGoResampler(channels, sampleRate, nSampleRate) ==
  IF channels < 1 \/ channels > 2 THEN "invalid channels"
  ELSE IF sampleRate <= 0 THEN "invalid sampleRate"
  ELSE IF nSampleRate <= 0 THEN "invalid nSampleRate"
  ELSE ""

\* NewConverter panics when one of its two resamplers cannot be built.
NewConverterPanics(sampleRate, channels) ==
  \/ NewGoResampler(channels, sampleRate, DefaultUpPcmSR) # ""
  \/ NewGoResampler(channels, DefaultDownPcmSR, DeviceOpusRate24k) # ""

NewConverter(sampleRate, channels, frameDuration, frameSize) ==
  [SampleRate |-> sampleRate, DownSampleRate |-> DeviceOpusRate24k,
   Channels |-> channels, FrameDuration |-> frameDuration,
   DownDuration |-> frameDuration, FrameSize |-> frameSize, delta |-> <<>>]

\* Number of int16 samples binary.Read takes from nb bytes: a trailing odd
\* byte ends the loop with "unexpected EOF" and the function returns nil.
bytesToInt16(nb) == IF nb % 2 = 0 THEN nb \div 2 ELSE 0

\* Split buf into the frames of chunk samples the loop encodes, in order.
RECURSIVE ChunkFrames(_, _, _)
ChunkFrames(buf, chunk, rate) ==
  IF RunLen(buf) < chunk THEN <<>>
  ELSE <<BinFrame(TakeRuns(buf, chunk), rate)>>
         \o ChunkFrames(DropRuns(buf, chunk), chunk, rate)

\* parseFrames on converter c with nb bytes of PCM that arrived in response r:
\* the frames handed to the callback, and the converter afterwards.
parseFrames(c, nb, r) ==
  LET all == AppendRun(c.delta, r, bytesToInt16(nb))
      chunk == (c.DownDuration * c.DownSampleRate) \div 1000
      restLen == RunLen(all) % chunk
      full == TakeRuns(all, RunLen(all) - restLen)
      rest == IF restLen # 0 THEN DropRuns(all, RunLen(all) - restLen) ELSE <<>>
  IN [frames |-> ChunkFrames(full, chunk, c.DownSampleRate),
      conv |-> [c EXCEPT !.delta = rest]]

\* -------------------------------------------------------- upstream handlers
\* Upstream messages: [type, bytes].  bytes is the PCM size of an audio delta,
\* -1 when its base64 text does not decode.  Type "unknown" stands for a
\* message UnmarshalServerEvent rejects, "response.created" for the types
\* whose handler returns (nil, nil), "response.text.delta" for the types
\* UnmarshalServerEvent accepts and the switch has no case for.
\* text is the transcript of the three transcript-bearing types and the
\* error object of "error".
Transcript(type) ==
  CASE type = "conversation.item.input_audio_transcription.completed" -> "heard"
    [] type = "response.audio_transcript.done" -> "said"
    [] type = "response.content_part.done" -> "part"
    [] type = "error" -> "upstream error"
    [] OTHER -> ""

UpMsg(type) == [type |-> type, bytes |-> 0, text |-> Transcript(type)]

AudioDelta(b) == [UpMsg("response.audio.delta") EXCEPT !.bytes = b]

UpEvents ==
  {UpMsg(t) : t \in {"error", "session.created", "session.updated",
                     "input_audio_buffer.committed",
                     "conversation.item.input_audio_transcription.completed",
                     "response.audio_transcript.done",
                     "response.content_part.done", "response.audio.done",
                     "response.done", "response.created",
                     "response.text.delta", "unknown"}}
  \cup {AudioDelta(b) : b \in DeltaBytes \cup {-1}}

\* The session id the upstream assigns in session.created / session.updated.
UpstreamSessionID == "sess"

handleServerError(h, e) ==
  [h EXCEPT !.todo = <<[ServerEventBase("error", "", h.sessID) EXCEPT !.error = e.text]>>]

\* sess.Update stores the upstream's session id; for session.updated the
\* device hello is built, which reads sess.CliConfig.Format.
handleSessionCreateOrUpdate(h, update) ==
  IF update
  THEN IF CliConfig = Nil
       THEN [h EXCEPT !.sessID = UpstreamSessionID, !.pc = "panic"]
       ELSE [h EXCEPT !.sessID = UpstreamSessionID,
                      !.todo = <<[ServerEventBase("hello", "", UpstreamSessionID)
                                   EXCEPT !.audio_params =
                                     <<[format |-> CliConfig[1].Format,
                                        sample_rate |-> 24000, channels |-> 1,
                                        frame_duration |-> 60]>>]>>]
  ELSE [h EXCEPT !.sessID = UpstreamSessionID]

handleInputAudioBufferCommitted(h) ==
  [h EXCEPT !.todo = <<ServerEventBase("tts", "start", h.sessID)>>]

\* Two WriteRespEvent calls: stt, then llm with Text strconv.Itoa of the rune.
handleAsrDone(h, e) ==
  [h EXCEPT !.todo =
     <<[ServerEventBase("stt", "", h.sessID) EXCEPT !.text = e.text],
       [ServerEventBase("llm", "", h.sessID) EXCEPT !.text = Itoa(SmilingFace),
                                                    !.emotion = "happy"]>>]

handleResponseAudioTranscriptDone(h, e) ==
  [h EXCEPT !.todo =
     <<[ServerEventBase("tts", "sentence_start", h.sessID) EXCEPT !.text = e.text]>>]

handleContentPartDone(h, e) ==
  [h EXCEPT !.todo =
     <<[ServerEventBase("tts", "sentence_end", h.sessID) EXCEPT !.text = e.text]>>]

handleAudioDone(h) == h

\* Mutant of handleResponseCreated: the event is announced to the device.
handleResponseCreatedStart(h) == handleInputAudioBufferCommitted(h)

handleResponseCreated(h) == h

\* handleAudioDelta: setFrameTs, then ResolvePCM.  A delta that does not
\* base64-decode returns the error before the converter is touched; a nil
\* converter panics in parseFrames.
handleAudioDelta(h, bytes, t) ==
  LET h1 == setFrameTs(h, t) IN
  IF bytes < 0 THEN h1
  ELSE IF h1.conv = Nil THEN [h1 EXCEPT !.pc = "panic"]
  ELSE LET res == parseFrames(h1.conv[1], bytes, curResp)
       IN [h1 EXCEPT !.conv = <<res.conv>>, !.todo = res.frames]

\* Mutant of ResponseDoneTail: the handler returns (nil, nil) like its
\* neighbours and no tts stop is sent.
ResponseDoneTailNoStop(h) == resetFrameTs(h)

\* Mutant of ResponseDoneTail: the converter's leftover PCM is thrown away.
ResponseDoneTailFlush(h) ==
  [resetFrameTs(h) EXCEPT !.todo = <<ServerEventBase("tts", "stop", h.sessID)>>,
                          !.conv = IF h.conv = Nil THEN Nil
                                   ELSE <<[h.conv[1] EXCEPT !.delta = <<>>]>>]

\* The end of handleResponseDone, after the pacing gate.
ResponseDoneTail(h) ==
  [resetFrameTs(h) EXCEPT !.todo = <<ServerEventBase("tts", "stop", h.sessID)>>]

\* Mutant of handleResponseDone: no pacing gate.
handleResponseDoneNoGate(h, t) == ResponseDoneTail(h)

handleResponseDone(h, t) ==
  IF getWait(h.first, h.total, t) > 0
  THEN [h EXCEPT !.pc = "sleep", !.wake = t + getWait(h.first, h.total, t)]
  ELSE ResponseDoneTail(h)

\* UnmarshalServerEvent: the error ("" = nil) for a type outside its switch.
UnmarshalServerEvent(e) ==
  IF e.type = "unknown" THEN "unknown server event type" ELSE ""

\* An unmarshal error is returned to the loop, which discards it.
handleRealtimeApiEvent(e, t) ==
  LET h == HandlerState IN
  IF UnmarshalServerEvent(e) # "" THEN h ELSE
  CASE e.type = "error" -> handleServerError(h, e)
    [] e.type = "session.created" -> handleSessionCreateOrUpdate(h, FALSE)
    [] e.type = "session.updated" -> handleSessionCreateOrUpdate(h, TRUE)
    [] e.type = "input_audio_buffer.committed" -> handleInputAudioBufferCommitted(h)
    [] e.type = "conversation.item.input_audio_transcription.completed" -> handleAsrDone(h, e)
    [] e.type = "response.audio_transcript.done" -> handleResponseAudioTranscriptDone(h, e)
    [] e.type = "response.audio.delta" -> handleAudioDelta(h, e.bytes, t)
    [] e.type = "response.audio.done" -> handleAudioDone(h)
    [] e.type = "response.content_part.done" -> handleContentPartDone(h, e)
    [] e.type = "response.done" -> handleResponseDone(h, t)
    [] e.type = "response.created" -> handleResponseCreated(h)
    [] OTHER -> h

\* --------------------------------------------------------------------- Init
\* The connection once the idle timeout is chosen.
InitConn ==
  /\ idleTimer = IF idleTimeout = 0 THEN "nil" ELSE "armed"
  /\ timerC = FALSE
  /\ idleAt = IF idleTimeout = 0 THEN 0 ELSE 1 + idleTimeout
  /\ pingAt = 1 + PingTick
  /\ lastOp = 1
  /\ ctxDone = FALSE /\ sessDone = FALSE
  /\ conn = "open" /\ apiConn = "open"
  /\ writeQueue = <<>> /\ chClosed = FALSE /\ closed = FALSE
  /\ CliConfig = Nil /\ sessID = "" /\ audioConverter = Nil
  /\ firstDeltaTs = 0 /\ totalOpusDuration = 0 /\ now = 1
  /\ pcRead = "read" /\ pcWrite = "select" /\ pcIdle = "start"
  /\ pcDone = "wait" /\ pcUp = "read"
  /\ upTodo = <<>> /\ wakeAt = 0
  /\ nUp = 0 /\ nDev = 0 /\ curResp = 1 /\ turn = "idle"
  /\ upIn = Nil /\ devIn = Nil
  /\ nEnq = 0 /\ written = <<>> /\ apiSent = <<>>
  /\ closeCount = 0 /\ panics = {}

\* No codec and no resampler is looked at on its own.
InitPure == codec = Nil /\ resampler = Nil

Init == idleTimeout \in IdleTimeouts /\ InitConn /\ InitPure

\* resetIdleTimer: the timer's state afterwards.
resetIdleTimer == IF idleTimeout = 0 THEN idleTimer ELSE "armed"

\* resetIdleTimer: the instant at which the timer expires afterwards.
resetIdleAt == IF idleTimeout = 0 THEN idleAt ELSE now + idleTimeout

\* The instant of the last traffic, kept where an idle timer is configured.
Activity == IF idleTimeout = 0 THEN lastOp ELSE now

\* conn.WriteMessage / conn.WriteJSON by task `via`: the message reaches the
\* device unless the socket is closed (the error is ignored by every caller).
SocketWrite(ev, via) ==
  IF conn = "open" THEN Append(written, [ev EXCEPT !.src = IF via = "queue" THEN @ ELSE 0])
  ELSE written

\* ------------------------------------------------------- upstream read loop
\* History stamps on the events a handler hands to WriteRespEvent.
Stamp(todo) ==
  [i \in 1..Len(todo) |-> [todo[i] EXCEPT !.resp = curResp, !.src = nUp + 1]]

NextTurn(e) ==
  CASE e.type = "input_audio_buffer.committed" ->
         IF turn = "idle" THEN "open" ELSE "bad"
    [] e.type = "response.done" ->
         IF turn = "open" THEN "idle" ELSE "bad"
    [] OTHER -> turn

\* Where the loop goes once a handler has left `todo` for WriteRespEvent.
AfterHandler(todo) == IF todo = <<>> THEN "read" ELSE "check"

\* conn.ReadMessage returns a message e, dt ms after the clock was last read,
\* and handleRealtimeApiEvent runs up to its first suspension point.
UpRead(e, dt) ==
  /\ pcUp = "read" /\ apiConn = "open"
  /\ nUp < MaxUp /\ now + dt <= MaxNow
  /\ LET h == handleRealtimeApiEvent(e, now + dt) IN
       /\ now' = now + dt
       /\ nUp' = nUp + 1
       /\ upIn' = <<e>>
       /\ turn' = NextTurn(e)
       /\ sessID' = h.sessID
       /\ firstDeltaTs' = h.first
       /\ totalOpusDuration' = h.total
       /\ audioConverter' = h.conv
       /\ wakeAt' = h.wake
       /\ upTodo' = Stamp(h.todo)
       /\ pcUp' = CASE h.pc = "panic" -> "panicked"
                    [] h.pc = "sleep" -> "sleep"
                    [] OTHER -> AfterHandler(h.todo)
       /\ panics' = IF h.pc = "panic" THEN panics \cup {"up"} ELSE panics
       /\ curResp' = IF e.type = "response.done" /\ h.pc = "ok"
                     THEN curResp + 1 ELSE curResp
  /\ UNCHANGED <<connVars, timerVars, queueVars, CliConfig, devVars,
                 pcWrite, pcIdle, pcDone, written>>

\* time.Sleep returns; handleResponseDone resets the clock and returns tts stop.
UpWake ==
  /\ pcUp = "sleep"
  /\ LET h == ResponseDoneTail(HandlerState) IN
       /\ now' = IF now < wakeAt THEN wakeAt ELSE now
       /\ firstDeltaTs' = h.first
       /\ totalOpusDuration' = h.total
       /\ upTodo' = Stamp(h.todo)
       /\ pcUp' = AfterHandler(h.todo)
       /\ curResp' = curResp + 1
  /\ UNCHANGED <<connVars, timerVars, queueVars, sessVars, devVars, wakeAt,
                 nUp, upIn, turn, pcWrite, pcIdle, pcDone, written, panics>>

\* conn.ReadMessage on the upstream socket fails: the goroutine returns.
UpReadErr ==
  /\ pcUp = "read" /\ apiConn # "open"
  /\ pcUp' = "returned"
  /\ UNCHANGED <<connVars, timerVars, queueVars, sessVars, paceVars, devVars,
                 upTodo, wakeAt, nUp, upIn, curResp, turn, pcWrite, pcIdle, pcDone,
                 written, panics>>

\* addOpusDuration: the new total; reads sess.CliConfig.
addOpusDuration == totalOpusDuration + CliConfig[1].FrameDuration

\* WriteRespEvent up to the channel send: the closed flag is read, and for a
\* binary frame the pacing clock is advanced.
WriteRespEventCheck ==
  /\ pcUp = "check"
  /\ LET ev == Head(upTodo) IN
       IF closed
       THEN /\ upTodo' = Tail(upTodo)
            /\ pcUp' = AfterHandler(Tail(upTodo))
            /\ UNCHANGED <<totalOpusDuration, panics>>
       ELSE IF IsServerEvent(ev)
       THEN /\ pcUp' = "send"
            /\ UNCHANGED <<upTodo, totalOpusDuration, panics>>
       ELSE IF CliConfig = Nil
       THEN /\ pcUp' = "panicked"
            /\ panics' = panics \cup {"up"}
            /\ UNCHANGED <<upTodo, totalOpusDuration>>
       ELSE /\ totalOpusDuration' = addOpusDuration
            /\ pcUp' = "send"
            /\ UNCHANGED <<upTodo, panics>>
  /\ UNCHANGED <<connVars, timerVars, queueVars, sessVars, firstDeltaTs, now,
                 devVars, wakeAt, nUp, upIn, curResp, turn, pcWrite, pcIdle, pcDone,
                 written>>

\* Mutant of WriteRespEventSend: a non-blocking send (select with default)
\* that drops the event when the queue is full.
WriteRespEventSendOrDrop ==
  /\ pcUp = "send"
  /\ IF chClosed
     THEN /\ pcUp' = "panicked"
          /\ panics' = panics \cup {"up"}
          /\ UNCHANGED <<writeQueue, nEnq, upTodo>>
     ELSE /\ IF Len(writeQueue) < WriteQueueSize
             THEN /\ writeQueue' = Append(writeQueue, [Head(upTodo) EXCEPT !.seq = nEnq + 1])
                  /\ nEnq' = nEnq + 1
             ELSE UNCHANGED <<writeQueue, nEnq>>
          /\ upTodo' = Tail(upTodo)
          /\ pcUp' = AfterHandler(Tail(upTodo))
          /\ UNCHANGED panics
  /\ UNCHANGED <<connVars, timerVars, chClosed, closed, closeCount, sessVars,
                 paceVars, devVars, wakeAt, nUp, upIn, curResp, turn, pcWrite, pcIdle,
                 pcDone, written>>

\* w.writeQueue <- event: blocks while the queue is full, panics on a closed
\* channel.
WriteRespEventSend ==
  /\ pcUp = "send"
  /\ IF chClosed
     THEN /\ pcUp' = "panicked"
          /\ panics' = panics \cup {"up"}
          /\ UNCHANGED <<writeQueue, nEnq, upTodo>>
     ELSE /\ Len(writeQueue) < WriteQueueSize
          /\ writeQueue' = Append(writeQueue, [Head(upTodo) EXCEPT !.seq = nEnq + 1])
          /\ nEnq' = nEnq + 1
          /\ upTodo' = Tail(upTodo)
          /\ pcUp' = AfterHandler(Tail(upTodo))
          /\ UNCHANGED panics
  /\ UNCHANGED <<connVars, timerVars, chClosed, closed, closeCount, sessVars,
                 paceVars, devVars, wakeAt, nUp, upIn, curResp, turn, pcWrite, pcIdle,
                 pcDone, written>>

\* The upstream peer closes or the connection breaks.
ApiConnDrop ==
  /\ apiConn = "open"
  /\ apiConn' = "down"
  /\ UNCHANGED <<idleTimeout, pureVars, ctxDone, sessDone, conn, timerVars, queueVars,
                 sessVars, paceVars, devVars, upVars, pcWrite, pcIdle, pcDone,
                 written, panics>>

\* --------------------------------------------------------- device read loop
\* Device messages: [kind, format, fd, sr, ch].  kind "hello" carries audio
\* params (format, frame_duration fd, sample_rate sr, channels ch; a hello
\* without audio params has them all zero); "bin" is a binary frame that Opus-decodes,
\* "binBad" one that does not, "binEmpty" an empty one; "malformed" is text
\* that is no JSON, "unknownType" JSON with a type UnmarshalClientEvent does
\* not know.
DevMsg(kind) == [kind |-> kind, format |-> "", fd |-> 0, sr |-> 0, ch |-> 0]

\* A hello with valid audio params: Opus, 16 kHz mono, frame_duration d.
Hello(d) == [kind |-> "hello", format |-> "opus", fd |-> d, sr |-> 16000, ch |-> 1]

\* Hellos handleHelloEvent rejects: without audio params, and with one of
\* them zero or empty.
BadHellos ==
  {DevMsg("hello"), [Hello(60) EXCEPT !.sr = 0], [Hello(60) EXCEPT !.ch = 0],
   [Hello(60) EXCEPT !.fd = 0], [Hello(60) EXCEPT !.format = ""]}

DevMsgs ==
  {DevMsg(k) : k \in {"hello", "listen", "abort", "iot", "bin", "binBad",
                      "binEmpty", "malformed", "unknownType"}}
  \cup {Hello(d) : d \in FrameDurations}
  \cup {[Hello(60) EXCEPT !.ch = 3]}

\* UnmarshalClientTextEvent / UnmarshalClientBinEvent: the error ("" = nil).
\* Mutant of UnmarshalClientEvent: a text message of unknown type is passed
\* on as an event.
UnmarshalClientEventLenient(m) ==
  IF m.kind = "malformed" THEN "invalid character" ELSE ""

UnmarshalClientEvent(m) ==
  CASE m.kind = "malformed" -> "invalid character"
    [] m.kind = "unknownType" -> "unknown client event type"
    [] OTHER -> ""

\* The upstream events the device handlers build.
SessionUpdateEvent ==
  [type |-> "session.update", modalities |-> <<"text", "audio">>,
   input_audio_format |-> "pcm16", output_audio_format |-> "pcm16",
   tool_choice |-> "required", max_response_output_tokens |-> 4096,
   turn_detection |-> "server_vad"]

\* src is a history field: the number of the device message it was built from.
InputAudioBufferAppendEvent ==
  [type |-> "input_audio_buffer.append", src |-> nDev + 1]

\* What a device handler leaves: err ("" = nil), the upstream event to send
\* (Nil = none), the session fields it may assign, and whether it panicked.
DispatchState ==
  [err |-> "", rtEvent |-> Nil, cfg |-> CliConfig, conv |-> audioConverter,
   panic |-> FALSE]

\* Mutant of handleHelloEvent: the audio params are not looked at.
handleHelloEventUnchecked(d, m) ==
  IF NewConverterPanics(m.sr, m.ch) THEN [d EXCEPT !.panic = TRUE]
  ELSE LET frameSize == (m.fd * m.sr) \div 1000 IN
       [d EXCEPT !.conv = <<NewConverter(m.sr, m.ch, m.fd, frameSize)>>,
                 !.cfg = <<[Format |-> m.format, SampleRate |-> m.sr,
                            Channels |-> m.ch, FrameDuration |-> m.fd,
                            FrameSize |-> frameSize]>>,
                 !.rtEvent = <<SessionUpdateEvent>>]

handleHelloEvent(d, m) ==
  IF m.sr = 0 \/ m.ch = 0 \/ m.format = "" \/ m.fd = 0
  THEN [d EXCEPT !.err = "invalid audio params"]
  ELSE IF NewConverterPanics(m.sr, m.ch) THEN [d EXCEPT !.panic = TRUE]
  ELSE LET frameSize == (m.fd * m.sr) \div 1000 IN
       [d EXCEPT !.conv = <<NewConverter(m.sr, m.ch, m.fd, frameSize)>>,
                 !.cfg = <<[Format |-> m.format, SampleRate |-> m.sr,
                            Channels |-> m.ch, FrameDuration |-> m.fd,
                            FrameSize |-> frameSize]>>,
                 !.rtEvent = <<SessionUpdateEvent>>]

handleListenEvent(d) == d

handleIotEvent(d) == d

\* Mutant of handleInputAudioBufferAppend: no test for an empty frame, which
\* OpusToPcmBase64 then rejects with "empty opus data".
handleInputAudioBufferAppendNoEmptyTest(d, m) ==
  IF d.conv = Nil THEN [d EXCEPT !.panic = TRUE]
  ELSE IF m.kind \in {"binBad", "binEmpty"} THEN [d EXCEPT !.err = "opus decode failed"]
  ELSE [d EXCEPT !.rtEvent = <<InputAudioBufferAppendEvent>>]

\* OpusToPcmBase64 on a nil converter panics when opus2pcm reads c.SampleRate.
handleInputAudioBufferAppend(d, m) ==
  IF m.kind = "binEmpty" THEN d
  ELSE IF d.conv = Nil THEN [d EXCEPT !.panic = TRUE]
  ELSE IF m.kind = "binBad" THEN [d EXCEPT !.err = "opus decode failed"]
  ELSE [d EXCEPT !.rtEvent = <<InputAudioBufferAppendEvent>>]

\* SendToRealtimeAPI: apiConn.WriteJSON fails on a broken socket.
SendToRealtimeAPI(d) ==
  IF d.rtEvent = Nil \/ d.err # "" THEN d
  ELSE IF apiConn = "open" THEN d
  ELSE [d EXCEPT !.err = "write upstream failed", !.rtEvent = Nil]

\* The type switch of DispatchClientEvent.  Abort has no case in it.
DispatchHandler(m) ==
  LET d == DispatchState IN
  CASE m.kind = "hello" -> handleHelloEvent(d, m)
    [] m.kind = "listen" -> handleListenEvent(d)
    [] m.kind \in {"bin", "binBad", "binEmpty"} -> handleInputAudioBufferAppend(d, m)
    [] m.kind = "iot" -> handleIotEvent(d)
    [] OTHER -> d

\* The deferred recover turns a handler's panic into the zero results
\* (nil, false): no error, nothing sent.
DispatchClientEvent(m) ==
  LET r == DispatchHandler(m)
  IN IF r.panic THEN DispatchState ELSE SendToRealtimeAPI(r)

\* One round of ReadLoop on a message m the device sent.
ReadLoopMessage(m) ==
  /\ pcRead = "read" /\ conn = "open" /\ nDev < MaxDev
  /\ nDev' = nDev + 1
  /\ devIn' = <<m>>
  /\ IF UnmarshalClientEvent(m) # ""
     THEN /\ written' = SocketWrite(ServerEventError("invalid event format"), "read")
          /\ UNCHANGED <<CliConfig, audioConverter, apiSent, idleTimer, idleAt>>
     ELSE LET d == DispatchClientEvent(m) IN
          /\ CliConfig' = d.cfg
          /\ audioConverter' = d.conv
          /\ apiSent' = apiSent \o d.rtEvent
          /\ written' = IF d.err # "" THEN SocketWrite(ServerEventError(d.err), "read")
                        ELSE written
          /\ idleTimer' = resetIdleTimer
          /\ idleAt' = resetIdleAt
  /\ lastOp' = Activity
  /\ UNCHANGED <<connVars, timerC, pingAt, queueVars, sessID, paceVars, upVars, pcRead,
                 pcWrite, pcIdle, pcDone, panics>>

\* conn.ReadMessage fails because the gateway closed the socket.
ReadLoopReadClosed ==
  /\ pcRead = "read" /\ conn = "closed"
  /\ pcRead' = "done"
  /\ UNCHANGED <<connVars, timerVars, queueVars, sessVars, paceVars, upVars,
                 nDev, devIn, apiSent, pcWrite, pcIdle, pcDone, written, panics>>

\* conn.ReadMessage fails because the device went away (EOF, reset).
ReadLoopReadEOF ==
  /\ pcRead = "read" /\ conn = "open"
  /\ pcRead' = "done"
  /\ UNCHANGED <<connVars, timerVars, queueVars, sessVars, paceVars, upVars,
                 nDev, devIn, apiSent, pcWrite, pcIdle, pcDone, written, panics>>

\* w.done <- struct{}{} meets the write loop's case <-w.done: the channel is
\* unbuffered, so the send completes only together with the receive.
DoneRendezvous ==
  /\ pcRead = "done" /\ pcWrite = "select"
  /\ pcRead' = "close"
  /\ pcWrite' = "returned"
  /\ UNCHANGED <<connVars, timerVars, queueVars, sessVars, paceVars, upVars,
                 nDev, devIn, apiSent, pcIdle, pcDone, written, panics>>

\* ConnWrapper.Close: conn.Close, then handler.Close up to sess.Close.
CloseConn ==
  /\ pcRead = "close"
  /\ conn' = "closed"
  /\ sessDone' = TRUE
  /\ pcRead' = "closeQueue"
  /\ UNCHANGED <<idleTimeout, pureVars, ctxDone, apiConn, timerVars, queueVars, sessVars,
                 paceVars, upVars, nDev, devIn, apiSent, pcWrite, pcIdle, pcDone,
                 written, panics>>

\* XiaozhiHandler.Close: close(r.writeQueue); closing a closed channel panics.
CloseQueue ==
  /\ pcRead = "closeQueue"
  /\ IF chClosed
     THEN /\ pcRead' = "panicked"
          /\ panics' = panics \cup {"read"}
          /\ UNCHANGED <<chClosed, closeCount>>
     ELSE /\ chClosed' = TRUE
          /\ closeCount' = closeCount + 1
          /\ pcRead' = "closeStore"
          /\ UNCHANGED panics
  /\ UNCHANGED <<connVars, timerVars, writeQueue, closed, nEnq, sessVars,
                 paceVars, upVars, nDev, devIn, apiSent, pcWrite, pcIdle, pcDone,
                 written>>

\* XiaozhiHandler.Close: r.closed.Store(true); ConnWrapper.Close: idleTimer.Stop.
CloseStore ==
  /\ pcRead = "closeStore"
  /\ closed' = TRUE
  /\ idleTimer' = IF idleTimer = "nil" THEN "nil" ELSE "stopped"
  /\ pcRead' = "returned"
  /\ UNCHANGED <<connVars, timerC, idleAt, pingAt, lastOp, writeQueue, chClosed, nEnq, closeCount,
                 sessVars, paceVars, upVars, nDev, devIn, apiSent, pcWrite, pcIdle,
                 pcDone, written, panics>>

\* ----------------------------------------------------------------- write loop
\* Mutant of WriteLoopRecv: the newest event is taken first.
WriteLoopRecvNewest ==
  /\ pcWrite = "select" /\ writeQueue # <<>>
  /\ writeQueue' = SubSeq(writeQueue, 1, Len(writeQueue) - 1)
  /\ written' = SocketWrite(writeQueue[Len(writeQueue)], "queue")
  /\ idleTimer' = resetIdleTimer
  /\ idleAt' = resetIdleAt
  /\ lastOp' = Activity
  /\ UNCHANGED <<connVars, timerC, pingAt, chClosed, closed, nEnq, closeCount, sessVars,
                 paceVars, upVars, devVars, pcWrite, pcIdle, pcDone, panics>>

\* Mutant of WriteLoopRecv: a binary frame is written by a helper task, so
\* the loop goes on to the next event and the frame reaches the socket after it.
WriteLoopRecvAsyncBin ==
  /\ pcWrite = "select" /\ writeQueue # <<>>
  /\ IF Head(writeQueue).type = "bin" /\ Len(writeQueue) > 1
     THEN /\ writeQueue' = Tail(Tail(writeQueue))
          /\ written' = IF conn = "open"
                        THEN written \o <<writeQueue[2], writeQueue[1]>>
                        ELSE written
     ELSE /\ writeQueue' = Tail(writeQueue)
          /\ written' = SocketWrite(Head(writeQueue), "queue")
  /\ idleTimer' = resetIdleTimer
  /\ idleAt' = resetIdleAt
  /\ lastOp' = Activity
  /\ UNCHANGED <<connVars, timerC, pingAt, chClosed, closed, nEnq, closeCount, sessVars,
                 paceVars, upVars, devVars, pcWrite, pcIdle, pcDone, panics>>

\* case event, ok := <-w.handler.Recv(ctx): write the event, reset the timer.
WriteLoopRecv ==
  /\ pcWrite = "select" /\ writeQueue # <<>>
  /\ writeQueue' = Tail(writeQueue)
  /\ written' = SocketWrite(Head(writeQueue), "queue")
  /\ idleTimer' = resetIdleTimer
  /\ idleAt' = resetIdleAt
  /\ lastOp' = Activity
  /\ UNCHANGED <<connVars, timerC, pingAt, chClosed, closed, nEnq, closeCount, sessVars,
                 paceVars, upVars, devVars, pcWrite, pcIdle, pcDone, panics>>

\* case <-activeTimer.C: the timer is set again, and Ping resets the idle
\* timer and writes a control frame.
WriteLoopPing ==
  /\ pcWrite = "select"
  /\ idleTimer' = resetIdleTimer
  /\ idleAt' = resetIdleAt
  /\ pingAt' = now + PingTick
  /\ UNCHANGED <<connVars, timerC, lastOp, queueVars, sessVars, paceVars, upVars,
                 devVars, pcWrite, pcIdle, pcDone, written, panics>>

\* ------------------------------------------------------------------ watchers
\* WatchIdle returns at once when no idle timeout is configured.
WatchIdleStart ==
  /\ pcIdle = "start"
  /\ pcIdle' = IF idleTimeout = 0 \/ idleTimer = "nil" THEN "returned" ELSE "wait"
  /\ UNCHANGED <<connVars, timerVars, queueVars, sessVars, paceVars, upVars,
                 devVars, pcWrite, pcDone, written, panics>>

\* The idle timer expires: the runtime sends on idleTimer.C.
TimerExpire ==
  /\ idleTimer = "armed"
  /\ idleTimer' = "stopped"
  /\ timerC' = TRUE
  /\ UNCHANGED <<connVars, idleAt, pingAt, lastOp, queueVars, sessVars, paceVars, upVars, devVars,
                 pcWrite, pcIdle, pcDone, written, panics>>

\* <-w.idleTimer.C: write the error event, close the device socket.
WatchIdleFire ==
  /\ pcIdle = "wait" /\ timerC
  /\ timerC' = FALSE
  /\ written' = SocketWrite(ServerEventError("too long without operation"), "idle")
  /\ conn' = "closed"
  /\ pcIdle' = "returned"
  /\ UNCHANGED <<idleTimeout, pureVars, ctxDone, sessDone, apiConn, idleTimer, idleAt, pingAt, lastOp,
                 queueVars,
                 sessVars, paceVars, upVars, devVars, pcWrite, pcDone, panics>>

\* The connection context is cancelled; the session context is its child.
CancelCtx ==
  /\ ~ctxDone
  /\ ctxDone' = TRUE
  /\ sessDone' = TRUE
  /\ UNCHANGED <<idleTimeout, pureVars, conn, apiConn, timerVars, queueVars, sessVars,
                 paceVars, upVars, devVars, pcWrite, pcIdle, pcDone, written,
                 panics>>

\* Mutant of WatchHandlerDone: the watcher returns without closing the socket.
WatchHandlerDoneNoClose ==
  /\ pcDone = "wait" /\ ctxDone
  /\ pcDone' = "returned"
  /\ UNCHANGED <<connVars, timerVars, queueVars, sessVars, paceVars, upVars,
                 devVars, pcWrite, pcIdle, written, panics>>

\* <-w.handler.Done(): close the device socket.
WatchHandlerDone ==
  /\ pcDone = "wait" /\ ctxDone
  /\ conn' = "closed"
  /\ pcDone' = "returned"
  /\ UNCHANGED <<idleTimeout, pureVars, ctxDone, sessDone, apiConn, timerVars, queueVars,
                 sessVars, paceVars, upVars, devVars, pcWrite, pcIdle, written,
                 panics>>

\* ------------------------------------------------------------ specifications
\* The steps of the upstream read loop after a message was read.
UpstreamSteps ==
  \/ UpWake
  \/ WriteRespEventCheck
  \/ WriteRespEventSend

\* ConnWrapper.Close as run by ReadLoop's defer.
CloseSteps ==
  \/ DoneRendezvous
  \/ CloseConn
  \/ CloseQueue
  \/ CloseStore

\* The data path: every upstream message that puts events on the write
\* queue or moves the pacing clock, a hello from the device, the write loop,
\* and the device going away.  No idle timer is configured, as in
\* WebSocketServer.NewConnWrapper.
StreamEvents ==
  {UpMsg(t) : t \in {"input_audio_buffer.committed",
                     "conversation.item.input_audio_transcription.completed",
                     "response.audio.done", "response.done"}}
  \cup {AudioDelta(b) : b \in DeltaBytes}

StreamMsgs == {Hello(d) : d \in FrameDurations}

InitStream == Init /\ idleTimeout = 0

NextStream ==
  \/ \E e \in StreamEvents, dt \in Elapse : UpRead(e, dt)
  \/ UpstreamSteps
  \/ \E m \in StreamMsgs : nDev < MaxStreamDev /\ ReadLoopMessage(m)
  \/ ReadLoopReadEOF
  \/ CloseSteps
  \/ WriteLoopRecv
  \/ WatchIdleStart

Spec == InitStream /\ [][NextStream]_vars

\* closeRealtimeAPI closes the upstream socket.  Nothing in the program
\* calls it, so it is a step of no specification.
closeRealtimeAPI ==
  /\ apiConn # "closed"
  /\ apiConn' = "closed"
  /\ UNCHANGED <<idleTimeout, pureVars, ctxDone, sessDone, conn, timerVars, queueVars,
                 sessVars, paceVars, devVars, upVars, pcWrite, pcIdle, pcDone,
                 written, panics>>

\* The connection's lifetime: every shutdown trigger, with and without an
\* idle timer, around a data path reduced to the messages that fill the queue.
ShutdownEvents ==
  {UpMsg(t) : t \in {"input_audio_buffer.committed",
                     "conversation.item.input_audio_transcription.completed"}}

ShutdownMsgs == {DevMsg(k) : k \in {"listen", "malformed"}}

\* The steps of ReadLoop that need no message from the device.
ReadLoopSteps ==
  \/ ReadLoopReadClosed
  \/ CloseSteps

UpstreamLoopSteps ==
  \/ UpReadErr
  \/ WriteRespEventCheck
  \/ WriteRespEventSend

WatchIdleSteps ==
  \/ WatchIdleStart
  \/ WatchIdleFire

NextShutdown ==
  \/ \E e \in ShutdownEvents : nUp < MaxShutUp /\ UpRead(e, 0)
  \/ UpstreamLoopSteps
  \/ ApiConnDrop
  \/ \E m \in ShutdownMsgs : nDev < MaxStreamDev /\ ReadLoopMessage(m)
  \/ ReadLoopReadEOF
  \/ ReadLoopSteps
  \/ WriteLoopRecv
  \/ WriteLoopPing
  \/ WatchIdleSteps
  \/ TimerExpire
  \/ CancelCtx
  \/ WatchHandlerDone

SpecShutdown == Init /\ [][NextShutdown]_vars

\* Every task that can take a step takes one: a goroutine that is not blocked
\* runs, and select takes a case that stays ready.  Nothing is assumed of the
\* peers, the clock or the context: messages, EOF, connection loss, timer
\* expiry and cancellation may or may not happen.
FairShutdown ==
  /\ SpecShutdown
  /\ WF_vars(ReadLoopSteps)
  /\ WF_vars(UpstreamLoopSteps)
  /\ WF_vars(WriteLoopRecv)
  /\ WF_vars(WatchIdleSteps)
  /\ WF_vars(WatchHandlerDone)

\* The translation: every kind of device message and of upstream message, on
\* a connection that stays up.
NextTranslate ==
  \/ \E e \in UpEvents : nUp < MaxTransUp /\ UpRead(e, 0)
  \/ UpstreamSteps
  \/ \E m \in DevMsgs : nDev < MaxTransDev /\ ReadLoopMessage(m)
  \/ WriteLoopRecv

SpecTranslate == InitStream /\ [][NextTranslate]_vars

\* The idle timer in real time.  Time passes in steps, and not beyond the
\* expiry of a timer somebody waits for: the idle timer while it runs, the
\* activeTimer while WriteLoop is in its select.
Tick(d) ==
  /\ now + d <= MaxIdleNow
  /\ pcWrite = "select" => now + d <= pingAt
  /\ idleTimer = "armed" => now + d <= idleAt
  /\ now' = now + d
  /\ UNCHANGED <<connVars, timerVars, queueVars, sessVars, firstDeltaTs,
                 totalOpusDuration, upVars, devVars, pcWrite, pcIdle, pcDone,
                 written, panics>>

IdleTimerFires == now >= idleAt /\ TimerExpire

PingTickFires == now >= pingAt /\ WriteLoopPing

InitIdle == idleTimeout \in TimedIdleTimeouts /\ InitConn /\ InitPure

NextIdle ==
  \/ \E d \in TickSteps : Tick(d)
  \/ PingTickFires
  \/ IdleTimerFires
  \/ WatchIdleSteps
  \/ \E m \in ShutdownMsgs : nDev < MaxStreamDev /\ ReadLoopMessage(m)
  \/ \E e \in ShutdownEvents : nUp < MaxIdleUp /\ UpRead(e, 0)
  \/ WriteRespEventCheck
  \/ WriteRespEventSend
  \/ WriteLoopRecv
  \/ ReadLoopReadEOF
  \/ CloseSteps

SpecIdle == InitIdle /\ [][NextIdle]_vars

\* The device's audio on its way upstream: hellos and binary frames of every
\* kind in any order, while the upstream socket may break.
UplinkMsgs ==
  {DevMsg(k) : k \in {"bin", "binBad", "binEmpty"}}
  \cup {Hello(d) : d \in FrameDurations}
  \cup {[Hello(60) EXCEPT !.ch = 3]}
  \cup BadHellos

NextUplink ==
  \/ \E m \in UplinkMsgs : ReadLoopMessage(m)
  \/ ApiConnDrop

SpecUplink == InitStream /\ [][NextUplink]_vars

\* The transcoder's way down: a hello, then audio deltas of whole and of
\* broken PCM payloads across response boundaries, on a connection that
\* stays up.
OddDeltaBytes == {97, 1441}

DownlinkEvents ==
  {AudioDelta(b) : b \in DeltaBytes \cup OddDeltaBytes}
  \cup {UpMsg("response.done")}

NextDownlink ==
  \/ \E e \in DownlinkEvents : nUp < MaxDownUp /\ UpRead(e, 0)
  \/ UpstreamSteps
  \/ \E m \in StreamMsgs : nDev < MaxStreamDev /\ ReadLoopMessage(m)
  \/ WriteLoopRecv

SpecDownlink == InitStream /\ [][NextDownlink]_vars

\* ------------------------------------------------------- writes in progress
\* The device socket with its writes as calls that take time: a task is at
\* "write" from the start of conn.WriteMessage / conn.WriteJSON to its return.
\* The tasks inside a data write.
SocketWriters ==
  (IF pcRead = "write" THEN {"read"} ELSE {})
  \cup (IF pcWrite = "write" THEN {"queue"} ELSE {})
  \cup (IF pcIdle = "write" THEN {"idle"} ELSE {})

\* The socket takes one writer at a time and has no lock of its own.  What
\* a second writer makes is not defined: its frame is written (TRUE), or the
\* call panics (FALSE).
WriteOutcomes(via) == IF SocketWriters \ {via} = {} THEN {TRUE} ELSE {TRUE, FALSE}

\* case event, ok := <-w.handler.Recv(ctx), up to the call of WriteMessage.
SocketWriteLoopRecv ==
  /\ pcWrite = "select" /\ writeQueue # <<>>
  /\ writeQueue' = Tail(writeQueue)
  /\ \E ok \in WriteOutcomes("queue") :
       IF ok
       THEN /\ written' = SocketWrite(Head(writeQueue), "queue")
            /\ pcWrite' = "write"
            /\ UNCHANGED panics
       ELSE /\ pcWrite' = "panicked"
            /\ panics' = panics \cup {"queue"}
            /\ UNCHANGED written
  /\ UNCHANGED <<connVars, timerVars, chClosed, closed, nEnq, closeCount, sessVars,
                 paceVars, upVars, devVars, pcIdle, pcDone>>

\* WriteMessage returns: w.resetIdleTimer(), back to the select.
SocketWriteLoopWritten ==
  /\ pcWrite = "write"
  /\ pcWrite' = "select"
  /\ idleTimer' = resetIdleTimer
  /\ idleAt' = resetIdleAt
  /\ lastOp' = Activity
  /\ UNCHANGED <<connVars, timerC, pingAt, queueVars, sessVars, paceVars, upVars,
                 devVars, pcIdle, pcDone, written, panics>>

\* One round of ReadLoop on a message m, up to the call of WriteJSON when
\* there is an error event to write, and to its end when there is none.
SocketReadLoopMessage(m) ==
  /\ pcRead = "read" /\ conn = "open" /\ nDev < MaxDev
  /\ nDev' = nDev + 1
  /\ devIn' = <<m>>
  /\ LET d == DispatchClientEvent(m)
         err == IF UnmarshalClientEvent(m) # "" THEN "invalid event format"
                ELSE d.err
     IN /\ IF UnmarshalClientEvent(m) # ""
           THEN UNCHANGED <<CliConfig, audioConverter, apiSent>>
           ELSE /\ CliConfig' = d.cfg
                /\ audioConverter' = d.conv
                /\ apiSent' = apiSent \o d.rtEvent
        /\ IF err = ""
           THEN /\ idleTimer' = resetIdleTimer
                /\ idleAt' = resetIdleAt
                /\ UNCHANGED <<pcRead, written, panics>>
           ELSE /\ UNCHANGED <<idleTimer, idleAt>>
                /\ \E ok \in WriteOutcomes("read") :
                     IF ok
                     THEN /\ written' = SocketWrite(ServerEventError(err), "read")
                          /\ pcRead' = "write"
                          /\ UNCHANGED panics
                     ELSE /\ pcRead' = "panicked"
                          /\ panics' = panics \cup {"read"}
                          /\ UNCHANGED written
  /\ lastOp' = Activity
  /\ UNCHANGED <<connVars, timerC, pingAt, queueVars, sessID, paceVars, upVars,
                 pcWrite, pcIdle, pcDone>>

\* WriteJSON returns: continue after an unmarshal error, w.resetIdleTimer()
\* after a dispatch error.
SocketReadLoopWritten ==
  /\ pcRead = "write"
  /\ pcRead' = "read"
  /\ IF UnmarshalClientEvent(devIn[1]) # ""
     THEN UNCHANGED <<idleTimer, idleAt>>
     ELSE idleTimer' = resetIdleTimer /\ idleAt' = resetIdleAt
  /\ UNCHANGED <<connVars, timerC, pingAt, lastOp, queueVars, sessVars, paceVars,
                 upVars, nDev, devIn, apiSent, pcWrite, pcIdle, pcDone, written,
                 panics>>

\* <-w.idleTimer.C, up to the call of WriteJSON.
SocketWatchIdleFire ==
  /\ pcIdle = "wait" /\ timerC
  /\ timerC' = FALSE
  /\ \E ok \in WriteOutcomes("idle") :
       IF ok
       THEN /\ written' = SocketWrite(ServerEventError("too long without operation"), "idle")
            /\ pcIdle' = "write"
            /\ UNCHANGED panics
       ELSE /\ pcIdle' = "panicked"
            /\ panics' = panics \cup {"idle"}
            /\ UNCHANGED written
  /\ UNCHANGED <<connVars, idleTimer, idleAt, pingAt, lastOp, queueVars, sessVars,
                 paceVars, upVars, devVars, pcWrite, pcDone>>

\* WriteJSON returns: w.conn.Close().
SocketWatchIdleWritten ==
  /\ pcIdle = "write"
  /\ conn' = "closed"
  /\ pcIdle' = "returned"
  /\ UNCHANGED <<idleTimeout, pureVars, ctxDone, sessDone, apiConn, timerVars,
                 queueVars, sessVars, paceVars, upVars, devVars, pcWrite, pcDone,
                 written, panics>>

\* The three writers of the device socket and the upstream loop that fills
\* the queue.
NextSocket ==
  \/ \E e \in ShutdownEvents : nUp < MaxShutUp /\ UpRead(e, 0)
  \/ WriteRespEventCheck
  \/ WriteRespEventSend
  \/ \E m \in ShutdownMsgs : nDev < MaxTransDev /\ SocketReadLoopMessage(m)
  \/ SocketReadLoopWritten
  \/ SocketWriteLoopRecv
  \/ SocketWriteLoopWritten
  \/ WatchIdleStart
  \/ TimerExpire
  \/ SocketWatchIdleFire
  \/ SocketWatchIdleWritten

SpecSocket == Init /\ [][NextSocket]_vars

\* ------------------------------------------------------------ passthrough
\* provider.name = "xiaozhi": the device socket is spliced to the proxied
\* upstream socket.  ReadLoop copies device -> upstream in the request's
\* goroutine, WriteLoop copies upstream -> device in a goroutine of its own.
\* A socket is "open", "lost" (the peer is gone, reads fail) or "closed"
\* (Close was called here).

\* Messages each side may send before the model stops it.
MaxPassDev == 2
MaxPassUp == 2

\* The kinds of websocket data message.
PassKinds == {"text", "binary"}

\* A spliced message: its kind and where it came from.
PassMsg(k, from, n) == [type |-> k, from |-> from, n |-> n]

\* The error event of errorEvent().
PassError(text) == [type |-> "error", from |-> "gateway", error |-> text]

\* The tasks that receive from w.done.  NewConnWrapper makes the channel
\* with no buffer, and no statement of the passthrough wrapper reads it.
DoneReceivers == {}

\* RealTime with the "xiaozhi" provider: NewConnWrapper is called with
\* WithOriginReq only, so idleTimeout is 0 and idleTimer is nil.
InitPass ==
  /\ idleTimeout = 0
  /\ idleTimer = "nil" /\ timerC = FALSE
  /\ idleAt = 0 /\ pingAt = 0 /\ lastOp = 1
  /\ ctxDone = FALSE /\ sessDone = FALSE
  /\ conn = "open" /\ apiConn = "open"
  /\ writeQueue = <<>> /\ chClosed = FALSE /\ closed = FALSE
  /\ CliConfig = Nil /\ sessID = "" /\ audioConverter = Nil
  /\ firstDeltaTs = 0 /\ totalOpusDuration = 0 /\ now = 1
  /\ pcRead = "read" /\ pcWrite = "read" /\ pcIdle = "start"
  /\ pcDone = "none" /\ pcUp = "none"
  /\ upTodo = <<>> /\ wakeAt = 0
  /\ nUp = 0 /\ nDev = 0 /\ curResp = 1 /\ turn = "idle"
  /\ upIn = Nil /\ devIn = Nil
  /\ nEnq = 0 /\ written = <<>> /\ apiSent = <<>>
  /\ closeCount = 0 /\ panics = {}
  /\ InitPure

\* What the passthrough actions never touch.
passRest ==
  <<idleTimeout, pureVars, ctxDone, sessDone, timerVars, queueVars, sessVars,
    paceVars, pcUp, upTodo, wakeAt, upIn, curResp, turn, devIn, pcDone, panics>>

\* The device goes away: reads on w.conn fail from now on.
PassDeviceLost ==
  /\ conn = "open"
  /\ conn' = "lost"
  /\ UNCHANGED <<passRest, apiConn, pcRead, pcWrite, pcIdle, nUp, nDev, written, apiSent>>

\* The upstream goes away: reads on w.proxyConn fail from now on.
PassUpstreamLost ==
  /\ apiConn = "open"
  /\ apiConn' = "lost"
  /\ UNCHANGED <<passRest, conn, pcRead, pcWrite, pcIdle, nUp, nDev, written, apiSent>>

\* ReadLoop, one round on a message of kind k: w.proxyConn.WriteMessage,
\* and on its error the error event to the device and continue.
\* resetIdleTimer does nothing, idleTimeout being 0.
PassReadLoopMessage(k) ==
  /\ pcRead = "read" /\ conn = "open"
  /\ nDev' = nDev + 1
  /\ IF apiConn = "open"
     THEN /\ apiSent' = Append(apiSent, PassMsg(k, "device", nDev + 1))
          /\ UNCHANGED written
     ELSE /\ written' = Append(written, PassError("invalid event format"))
          /\ UNCHANGED apiSent
  /\ UNCHANGED <<passRest, conn, apiConn, pcRead, pcWrite, pcIdle, nUp>>

\* ReadLoop, w.conn.ReadMessage returns an error: w.done <- struct{}{},
\* then break, and the deferred w.Close().  The send is a rendezvous: it
\* returns when a receiver takes the value.
PassReadLoopError ==
  /\ pcRead = "read" /\ conn # "open"
  /\ IF DoneReceivers # {}
     THEN pcRead' = "returned" /\ conn' = "closed"
     ELSE pcRead' = "signal" /\ UNCHANGED conn
  /\ UNCHANGED <<passRest, apiConn, pcWrite, pcIdle, nUp, nDev, written, apiSent>>

\* WriteLoop, one round on a message of kind k: w.conn.WriteMessage, and on
\* its error w.conn.WriteJSON of the error event, which fails alike.
PassWriteLoopMessage(k) ==
  /\ pcWrite = "read" /\ apiConn = "open"
  /\ nUp' = nUp + 1
  /\ written' = IF conn = "open" THEN Append(written, PassMsg(k, "upstream", nUp + 1))
                ELSE written
  /\ UNCHANGED <<passRest, conn, apiConn, pcRead, pcWrite, pcIdle, nDev, apiSent>>

\* WriteLoop, w.proxyConn.ReadMessage returns an error: w.done <- struct{}{},
\* then break.
PassWriteLoopError ==
  /\ pcWrite = "read" /\ apiConn # "open"
  /\ pcWrite' = IF DoneReceivers # {} THEN "returned" ELSE "signal"
  /\ UNCHANGED <<passRest, conn, apiConn, pcRead, pcIdle, nUp, nDev, written, apiSent>>

\* WatchIdle: idleTimeout == 0, return.
PassWatchIdle ==
  /\ pcIdle = "start" /\ idleTimeout = 0
  /\ pcIdle' = "returned"
  /\ UNCHANGED <<passRest, conn, apiConn, pcRead, pcWrite, nUp, nDev, written, apiSent>>

PassReadLoopSteps ==
  \/ \E k \in PassKinds : nDev < MaxPassDev /\ PassReadLoopMessage(k)
  \/ PassReadLoopError

PassWriteLoopSteps ==
  \/ \E k \in PassKinds : nUp < MaxPassUp /\ PassWriteLoopMessage(k)
  \/ PassWriteLoopError

NextPass ==
  \/ PassDeviceLost
  \/ PassUpstreamLost
  \/ PassReadLoopSteps
  \/ PassWriteLoopSteps
  \/ PassWatchIdle

SpecPass == InitPass /\ [][NextPass]_vars

\* Every task of the wrapper runs when it can.
FairPass ==
  /\ SpecPass
  /\ WF_vars(PassReadLoopSteps)
  /\ WF_vars(PassWriteLoopSteps)
  /\ WF_vars(PassWatchIdle)

\* --------------------------------------------------------------------- codecs
\* An event of one of the three vocabularies that are marshalled:
\*   proto    "openai.server", "openai.client" or "xiaozhi.client"
\*   variant  its Go type, named by the type string that belongs to the type
\*   type     the Type field of its base
\*   id       EventID (openai) or SessionID (xiaozhi), both omitempty
\*   td       Session.TurnDetection of a SessionUpdateEvent: Nil or <<TurnDetection>>
\*   body     the fields of its own (transcript, delta, state, reason, data, bytes)
CodecEvent(proto, variant, type, id, td, body) ==
  [proto |-> proto, variant |-> variant, type |-> type, id |-> id, td |-> td,
   body |-> body]

NoEvent == CodecEvent("", "", "", "", Nil, "")

\* JSON text is the function from the keys it holds to their values; the
\* value null is Nil, an object <<object>>.
EmptyJSON == [k \in {} |-> ""]

\* The value of key k in JSON text w, dflt when w does not hold the key.
Get(w, k, dflt) == IF k \in DOMAIN w THEN w[k] ELSE dflt

\* A string field tagged omitempty.
OmitEmpty(k, v) == IF v = "" THEN EmptyJSON ELSE k :> v

\* What a codec function returns: the event, or an error (ok = FALSE).
Decoded(e) == [ok |-> TRUE, ev |-> e]

DecodeError == [ok |-> FALSE, ev |-> NoEvent]

\* utils.UniqueID: the identifier SetBaseEventType gives an event without one.
UniqueID == "uid"

\* The cases of UnmarshalServerEvent's switch.
ServerUnmarshalTypes ==
  {"error", "session.created", "session.updated", "conversation.created",
   "input_audio_buffer.committed", "input_audio_buffer.cleared",
   "input_audio_buffer.speech_started", "input_audio_buffer.speech_stopped",
   "conversation.item.created",
   "conversation.item.input_audio_transcription.completed",
   "conversation.item.input_audio_transcription.failed",
   "conversation.item.truncated", "conversation.item.deleted",
   "response.created", "response.done", "response.output_item.added",
   "response.output_item.done", "response.content_part.added",
   "response.content_part.done", "response.text.delta", "response.text.done",
   "response.audio_transcript.delta", "response.audio_transcript.done",
   "response.audio.delta", "response.audio.done",
   "response.function_call_arguments.delta",
   "response.function_call_arguments.done", "rate_limits.updated"}

\* The cases of MarshalServerEvent's type switch: the same types and
\* *ResponseCancelledEvent.
ServerMarshalTypes == ServerUnmarshalTypes \cup {"response.cancelled"}

\* MarshalServerEvent: SetBaseEventType assigns the type of the case and an
\* event id where there is none, then json.Marshal.
MarshalServerEvent(e) ==
  IF e.variant \in ServerMarshalTypes
  THEN <<("type" :> e.variant)
         @@ OmitEmpty("event_id", IF e.id = "" THEN UniqueID ELSE e.id)
         @@ ("body" :> e.body)>>
  ELSE Nil

UnmarshalServerEventJSON(w) ==
  IF Get(w, "type", "") \in ServerUnmarshalTypes
  THEN Decoded(CodecEvent("openai.server", w["type"], w["type"],
                          Get(w, "event_id", ""), Nil, Get(w, "body", "")))
  ELSE DecodeError

\* The cases of openai.UnmarshalClientEvent's switch.
ClientUnmarshalTypes ==
  {"session.update", "input_audio_buffer.append", "input_audio_buffer.commit",
   "input_audio_buffer.clear", "conversation.item.create",
   "conversation.item.truncate", "conversation.item.delete",
   "response.create", "response.cancel"}

ClientTurnDetectionTypeUnspecified == ""

\* openai.MarshalClientEvent is json.Marshal: the Type field as it is, and in
\* a session.update the key turn_detection whatever its value.
openaiMarshalClientEvent(e) ==
  <<("type" :> e.type) @@ OmitEmpty("event_id", e.id) @@ ("body" :> e.body)
    @@ (IF e.variant = "session.update"
        THEN "session.turn_detection" :> e.td ELSE EmptyJSON)>>

\* json.Unmarshal into the struct of the type.
unmarshalClientEvent(w) ==
  CodecEvent("openai.client", w["type"], w["type"], Get(w, "event_id", ""),
             Get(w, "session.turn_detection", Nil), Get(w, "body", ""))

\* Mutant of unmarshalSessionUpdateEvent: the generic decoding.
unmarshalSessionUpdateEventPlain(w) == Decoded(unmarshalClientEvent(w))

unmarshalSessionUpdateEvent(w) ==
  LET t == unmarshalClientEvent(w) IN
  IF "session.turn_detection" \notin DOMAIN w THEN Decoded(t)
  ELSE IF w["session.turn_detection"] = Nil
       THEN Decoded([t EXCEPT !.td =
                       <<[type |-> ClientTurnDetectionTypeUnspecified]>>])
       ELSE Decoded(t)

openaiUnmarshalClientEvent(w) ==
  IF Get(w, "type", "") = "session.update" THEN unmarshalSessionUpdateEvent(w)
  ELSE IF Get(w, "type", "") \in ClientUnmarshalTypes
       THEN Decoded(unmarshalClientEvent(w))
       ELSE DecodeError

\* The cases of xiaozhi.UnmarshalClientEvent's switch.
XiaozhiUnmarshalTypes == {"hello", "listen", "abort", "iot"}

\* The device event types: those and ClientEventAppendBuffer.
XiaozhiClientTypes == XiaozhiUnmarshalTypes \cup {"append.buffer"}

\* xiaozhi.MarshalClientEvent is json.Marshal.
xiaozhiMarshalClientEvent(e) ==
  <<("type" :> e.type) @@ OmitEmpty("session_id", e.id) @@ ("body" :> e.body)>>

xiaozhiUnmarshalClientEvent(w) ==
  IF Get(w, "type", "") \in XiaozhiUnmarshalTypes
  THEN Decoded(CodecEvent("xiaozhi.client", w["type"], w["type"],
                          Get(w, "session_id", ""), Nil, Get(w, "body", "")))
  ELSE DecodeError

\* The marshal function of the event's vocabulary.
Marshal(e) ==
  CASE e.proto = "openai.server" -> MarshalServerEvent(e)
    [] e.proto = "openai.client" -> openaiMarshalClientEvent(e)
    [] e.proto = "xiaozhi.client" -> xiaozhiMarshalClientEvent(e)

\* The unmarshal function that belongs to it.
Unmarshal(proto, w) ==
  CASE proto = "openai.server" -> UnmarshalServerEventJSON(w)
    [] proto = "openai.client" -> openaiUnmarshalClientEvent(w)
    [] proto = "xiaozhi.client" -> xiaozhiUnmarshalClientEvent(w)

\* Values of the fields.
CodecIds == {"", "id1"}

CodecBodies == {"", "payload"}

TurnDetections == {Nil, <<[type |-> "server_vad"]>>}

\* The events handed to the marshal functions.  MarshalServerEvent assigns
\* the Type field, so it may be unset; json.Marshal writes it as it is, so
\* the builder has set it.
CodecEvents ==
  {CodecEvent("openai.server", v, t, id, Nil, b) :
     v \in ServerMarshalTypes, t \in {""}, id \in CodecIds, b \in CodecBodies}
  \cup {CodecEvent("openai.server", v, v, id, Nil, b) :
     v \in ServerMarshalTypes, id \in CodecIds, b \in CodecBodies}
  \cup {CodecEvent("openai.client", v, v, id, Nil, b) :
     v \in ClientUnmarshalTypes \ {"session.update"}, id \in CodecIds,
     b \in CodecBodies}
  \cup {CodecEvent("openai.client", "session.update", "session.update", id, td, b) :
     id \in CodecIds, td \in TurnDetections, b \in CodecBodies}
  \cup {CodecEvent("xiaozhi.client", v, v, id, Nil, b) :
     v \in XiaozhiClientTypes, id \in CodecIds, b \in CodecBodies}

\* session.update texts as a client of the gateway's vocabulary writes them:
\* turn_detection absent, null, or an object.
SessionUpdateTexts ==
  {("type" :> "session.update") @@ ("body" :> b) : b \in CodecBodies}
  \cup {("type" :> "session.update") @@ ("body" :> b)
        @@ ("session.turn_detection" :> td) :
          b \in CodecBodies, td \in TurnDetections}

\* A codec at work: pc "event" (an event to marshal), "wire" (a text to
\* unmarshal), "decoded", "failed" (marshal returned an error).
CodecState(pc, proto, e, w, out) ==
  <<[pc |-> pc, proto |-> proto, ev |-> e, wire |-> w, out |-> out]>>

\* The variables of the connection, which these steps leave alone.
connState ==
  <<idleTimeout, ctxDone, sessDone, conn, apiConn, timerVars, queueVars,
    sessVars, paceVars, upVars, devVars, pcWrite, pcIdle, pcDone, written,
    panics>>

MarshalStep ==
  /\ codec # Nil /\ codec[1].pc = "event"
  /\ LET w == Marshal(codec[1].ev) IN
       codec' = IF w = Nil
                THEN CodecState("failed", codec[1].proto, codec[1].ev, EmptyJSON, DecodeError)
                ELSE CodecState("wire", codec[1].proto, codec[1].ev, w[1], DecodeError)
  /\ UNCHANGED <<connState, resampler>>

UnmarshalStep ==
  /\ codec # Nil /\ codec[1].pc = "wire"
  /\ codec' = CodecState("decoded", codec[1].proto, codec[1].ev, codec[1].wire,
                         Unmarshal(codec[1].proto, codec[1].wire))
  /\ UNCHANGED <<connState, resampler>>

InitCodec ==
  /\ idleTimeout = 0 /\ InitConn /\ resampler = Nil
  /\ codec \in {CodecState("event", e.proto, e, EmptyJSON, DecodeError) :
                  e \in CodecEvents}
          \cup {CodecState("wire", "openai.client", NoEvent, w, DecodeError) :
                  w \in SessionUpdateTexts}

NextCodec ==
  \/ MarshalStep
  \/ UnmarshalStep

SpecCodec == InitCodec /\ [][NextCodec]_vars

\* ------------------------------------------------------------------ IntOrInf
\* Inf is math.MaxInt, here that of a build with 32-bit int.
Inf == 2147483647

\* JSON bytes are sequences of characters.
InfText == <<"\"", "i", "n", "f", "\"">>

Digits == <<"0", "1", "2", "3", "4", "5", "6", "7", "8", "9">>

IsDigit(c) == \E d \in 1..10 : Digits[d] = c

DigitValue(c) == (CHOOSE d \in 1..10 : Digits[d] = c) - 1

\* json.Marshal of an int: its decimal digits, a minus sign before those of a
\* negative one.
RECURSIVE FormatNat(_)
FormatNat(n) ==
  IF n < 10 THEN <<Digits[n + 1]>>
  ELSE Append(FormatNat(n \div 10), Digits[(n % 10) + 1])

FormatInt(n) == IF n < 0 THEN <<"-">> \o FormatNat(-n) ELSE FormatNat(n)

\* A JSON number without fraction and exponent: digits, no leading zero, an
\* optional minus sign before them.
IsJSONInt(s) ==
  LET d == IF s # <<>> /\ s[1] = "-" THEN Tail(s) ELSE s IN
  /\ d # <<>>
  /\ \A i \in 1..Len(d) : IsDigit(d[i])
  /\ Len(d) > 1 => d[1] # "0"

RECURSIVE ParseNat(_)
ParseNat(s) ==
  IF s = <<>> THEN 0
  ELSE 10 * ParseNat(SubSeq(s, 1, Len(s) - 1)) + DigitValue(s[Len(s)])

\* json.Unmarshal into an int: the value of a JSON number, an error for any
\* other text.
ParseInt(s) ==
  IF ~IsJSONInt(s) THEN [ok |-> FALSE, ev |-> 0]
  ELSE IF s[1] = "-" THEN [ok |-> TRUE, ev |-> 0 - ParseNat(Tail(s))]
       ELSE [ok |-> TRUE, ev |-> ParseNat(s)]

\* Mutant of MarshalJSON: Inf is written as the number it is.
MarshalJSONNumber(m) == FormatInt(m)

\* IntOrInf.MarshalJSON
MarshalJSON(m) == IF m = Inf THEN InfText ELSE FormatInt(m)

\* IntOrInf.UnmarshalJSON into a receiver that holds m: the result, and the
\* value the receiver holds afterwards.
UnmarshalJSON(m, data) ==
  IF data = InfText THEN [ok |-> TRUE, ev |-> Inf]
  ELSE IF Len(data) = 0 THEN [ok |-> TRUE, ev |-> m]
       ELSE LET r == ParseInt(data) IN
            IF r.ok THEN r ELSE [ok |-> FALSE, ev |-> m]

\* The values marshalled, and the texts unmarshalled that no value marshals to.
MaxIntOrInf == 24

IntOrInfValues == (0 - MaxIntOrInf)..MaxIntOrInf \cup {4096, 0 - 4096, Inf}

IntOrInfTexts == {InfText, <<>>, <<"7">>, <<"-", "3">>, <<"0", "7">>, <<"i", "n", "f">>}

\* A value on its way: pc "value", "text", "decoded"; val the value marshalled
\* (Nil for a text that was handed in), out the result of UnmarshalJSON into
\* a receiver holding 0.
IntOrInfState(pc, val, text, out) ==
  <<[pc |-> pc, val |-> val, text |-> text, out |-> out]>>

IntOrInfMarshal ==
  /\ codec # Nil /\ codec[1].pc = "value"
  /\ codec' = IntOrInfState("text", codec[1].val, MarshalJSON(codec[1].val[1]),
                            codec[1].out)
  /\ UNCHANGED <<connState, resampler>>

IntOrInfUnmarshal ==
  /\ codec # Nil /\ codec[1].pc = "text"
  /\ codec' = IntOrInfState("decoded", codec[1].val, codec[1].text,
                            UnmarshalJSON(0, codec[1].text))
  /\ UNCHANGED <<connState, resampler>>

InitIntOrInf ==
  /\ idleTimeout = 0 /\ InitConn /\ resampler = Nil
  /\ codec \in {IntOrInfState("value", <<v>>, <<>>, [ok |-> TRUE, ev |-> 0]) :
                  v \in IntOrInfValues}
          \cup {IntOrInfState("text", Nil, t, [ok |-> TRUE, ev |-> 0]) :
                  t \in IntOrInfTexts}

NextIntOrInf ==
  \/ IntOrInfMarshal
  \/ IntOrInfUnmarshal

SpecIntOrInf == InitIntOrInf /\ [][NextIntOrInf]_vars

\* ----------------------------------------------------------------- resampler
\* A channel's samples are named by their place in the input, 1, 2, ...; an
\* output sample is the place x = k * isr / osr it was taken at, as its number
\* k, and the four input samples the spline was laid through.  Places are
\* compared as fractions: x < last is k * isr < last * osr and the integer
\* part of x is (k * isr) \div osr.
OutputSample(k, yi) == [k |-> k, yi |-> yi]

\* Mutant of resampleChannel: the four samples of one spline are held back
\* and not 16.
resampleChannelHold4(ipcm, isr, osr, ws, org) ==
  IF Len(ipcm) <= 4 THEN [opcm |-> <<>>, consumed |-> 0, panic |-> FALSE]
  ELSE
    LET available == Len(ipcm) - 4
        last == org + available
        ks == {k \in ws..((last * osr) \div isr) : k * isr < last * osr}
        yi0(k) == ((k * isr) \div osr) - org
        kl == ws + Cardinality(ks) - 1
    IN  IF \E k \in ks : yi0(k) < 0 \/ yi0(k) + 4 > Len(ipcm)
        THEN [opcm |-> <<>>, consumed |-> 0, panic |-> TRUE]
        ELSE [opcm |-> [i \in 1..Cardinality(ks) |->
                          OutputSample(ws + i - 1,
                                       SubSeq(ipcm, yi0(ws + i - 1) + 1,
                                              yi0(ws + i - 1) + 4))],
              consumed |-> IF ks = {} THEN 0 ELSE yi0(kl) + 1,
              panic |-> FALSE]

\* resampleChannel: the output samples and the number of samples consumed.
resampleChannel(ipcm, isr, osr, ws, org) ==
  IF Len(ipcm) <= 16 THEN [opcm |-> <<>>, consumed |-> 0, panic |-> FALSE]
  ELSE
    LET available == Len(ipcm) - 16
        last == org + available
        ks == {k \in ws..((last * osr) \div isr) : k * isr < last * osr}
        yi0(k) == ((k * isr) \div osr) - org
        kl == ws + Cardinality(ks) - 1
    IN  IF \E k \in ks : yi0(k) < 0 \/ yi0(k) + 4 > Len(ipcm)
        THEN [opcm |-> <<>>, consumed |-> 0, panic |-> TRUE]
        ELSE [opcm |-> [i \in 1..Cardinality(ks) |->
                          OutputSample(ws + i - 1,
                                       SubSeq(ipcm, yi0(ws + i - 1) + 1,
                                              yi0(ws + i - 1) + 4))],
              consumed |-> IF ks = {} THEN 0 ELSE yi0(kl) + 1,
              panic |-> FALSE]

\* The goResampler of one channel that NewGoResampler builds, with what it has been given and has
\* returned so far: n the length of the input, fed the samples handed to
\* Handle, opcm the outputs put together, errs the calls that returned an
\* error.
goResampler(isr, osr, n) ==
  [isr |-> isr, osr |-> osr, lcache |-> <<>>, lws |-> 0, lcs |-> 0,
   n |-> n, fed |-> 0, opcm |-> <<>>, errs |-> 0, panic |-> FALSE]

\* goResampler.Handle with the samples fed+1 .. fed+nb of the input.
Handle(v, nb) ==
  LET pcm == [i \in 1..nb |-> v.fed + i]
      given == [v EXCEPT !.fed = v.fed + nb] IN
  IF nb = 0 THEN [given EXCEPT !.errs = v.errs + 1]
  ELSE IF v.isr = v.osr
  THEN [given EXCEPT !.opcm = v.opcm \o [i \in 1..nb |-> OutputSample(v.fed + i - 1, <<pcm[i]>>)]]
  ELSE IF nb < 4 THEN [given EXCEPT !.errs = v.errs + 1]
  ELSE
    LET ipcmLeft == v.lcache \o pcm
        r == resampleChannel(ipcmLeft, v.isr, v.osr, v.lws, v.lcs) IN
    [given EXCEPT !.panic = r.panic,
                  !.opcm = v.opcm \o r.opcm,
                  !.lws = v.lws + Len(r.opcm),
                  !.lcs = v.lcs + r.consumed,
                  !.lcache = SubSeq(ipcmLeft, r.consumed + 1, Len(ipcmLeft))]

\* One Handle call with the whole input.
Monolithic(isr, osr, n) == Handle(goResampler(isr, osr, n), n).opcm

\* The rates of the converter's two resamplers: a device rate to that of the
\* upstream, and the upstream's rate to that of the downlink, which equals it.
ResampleRates ==
  {<<16000, DefaultUpPcmSR>>, <<48000, DefaultUpPcmSR>>,
   <<DefaultDownPcmSR, DeviceOpusRate24k>>}

\* Lengths of the input, and of the chunks it is handed over in.
MinSamples == 20

MaxSamples == 26

ChunkSizes == {2, 4, 7, 20}

HandleChunk(nb) ==
  /\ resampler # Nil /\ ~resampler[1].panic
  /\ resampler[1].fed + nb <= resampler[1].n
  /\ resampler' = <<Handle(resampler[1], nb)>>
  /\ UNCHANGED <<connState, codec>>

\* What is left of the input is handed over as the last chunk.
HandleRest ==
  /\ resampler # Nil /\ ~resampler[1].panic
  /\ resampler[1].fed < resampler[1].n
  /\ resampler' = <<Handle(resampler[1], resampler[1].n - resampler[1].fed)>>
  /\ UNCHANGED <<connState, codec>>

InitResample ==
  /\ idleTimeout = 0 /\ InitConn /\ codec = Nil
  /\ resampler \in {<<goResampler(r[1], r[2], n)>> :
                      r \in ResampleRates, n \in MinSamples..MaxSamples}

NextResample ==
  \/ \E nb \in ChunkSizes : HandleChunk(nb)
  \/ HandleRest

SpecResample == InitResample /\ [][NextResample]_vars

\* ===================================================================== claims
IsTts(ev, state) == ev.type = "tts" /\ ev.state = state

\* The indices of seq that hold an event written from the write queue.
Queued(seq) == {i \in 1..Len(seq) : seq[i].seq > 0}

\* In seq, between two consecutive tts start there is exactly one tts stop.
TtsPaired(seq) ==
  \A i, j \in 1..Len(seq) :
    (/\ i < j
     /\ IsTts(seq[i], "start") /\ IsTts(seq[j], "start")
     /\ \A k \in (i + 1)..(j - 1) : ~IsTts(seq[k], "start"))
    => Cardinality({k \in (i + 1)..(j - 1) : IsTts(seq[k], "stop")}) = 1

\* C1 as stated: whatever the upstream sends, on the device socket exactly one
\* tts stop lies between a tts start and the next tts start.
C1_StartStopPaired == TtsPaired(written)

\* C1 as amended: when the input_audio_buffer.committed and response.done
\* messages read from the upstream alternate, beginning with committed, then
\* on the device socket exactly one tts stop lies between a tts start and the
\* next tts start.
C1_StartStopPairedWhenAlternating == (turn # "bad") => TtsPaired(written)

\* Two turns went through: start, stop and the next start are on the socket.
C1_Witness ==
  /\ turn # "bad"
  /\ \E i, j, k \in 1..Len(written) :
       /\ i < j /\ j < k
       /\ IsTts(written[i], "start") /\ IsTts(written[j], "stop")
       /\ IsTts(written[k], "start")

\* C2: no binary frame holding audio of a response is written to the device
\* after the tts stop of that response.
C2_NoFrameAfterStop ==
  \A i, j \in 1..Len(written) :
    (i < j /\ IsTts(written[i], "stop") /\ written[j].type = "bin")
    => written[i].resp \notin written[j].resps

\* C3: when a tts stop is written to the device, every event enqueued before
\* it, and so every audio frame enqueued for its response, has been written
\* before it.
C3_StopAfterFrames ==
  \A i \in 1..Len(written) :
    IsTts(written[i], "stop")
    => /\ \A q \in 1..(written[i].seq - 1) :
            \E k \in 1..(i - 1) : written[k].seq = q
       /\ \A k \in 1..Len(writeQueue) :
            ~(writeQueue[k].type = "bin" /\ writeQueue[k].resp = written[i].resp)

\* A response's frame and then its tts stop are on the socket.
C3_Witness ==
  \E i, j \in 1..Len(written) :
    /\ i < j
    /\ written[i].type = "bin" /\ IsTts(written[j], "stop")
    /\ written[i].resp = written[j].resp

\* C4: the events taken from the write queue reach the device socket in the
\* order WriteRespEvent enqueued them, which is the order in which the
\* upstream read loop read the messages they come from; the queue holds the
\* events enqueued after them, in that order too.
C4_QueueFifo ==
  LET all == written \o writeQueue IN
  \A i, j \in Queued(all) :
    i < j => all[i].seq < all[j].seq /\ all[i].src <= all[j].src

\* Text events and a binary frame of three upstream messages are on the socket.
C4_Witness ==
  /\ Cardinality({written[i].src : i \in Queued(written)}) >= 3
  /\ \E i \in Queued(written) : written[i].type = "bin"
  /\ \E i \in Queued(written) : written[i].type = "stt"

\* C5: the write queue never holds more than WriteQueueSize events, a send on
\* a full queue does not complete, and an event leaves WriteRespEvent's send
\* only by being appended to the queue.
C5_BlockNotDrop ==
  /\ [](Len(writeQueue) <= WriteQueueSize)
  /\ [][(pcUp = "send" /\ ~chClosed)
        => /\ Len(writeQueue) >= WriteQueueSize
                => (upTodo' = upTodo /\ pcUp' = "send")
           /\ upTodo' # upTodo
                => /\ Len(writeQueue) < WriteQueueSize
                   /\ Len(writeQueue') = Len(writeQueue) + 1
                   /\ writeQueue'[Len(writeQueue')]
                        = [Head(upTodo) EXCEPT !.seq = nEnq + 1]]_vars

\* The producer is blocked in its send on a full queue.
C5_Witness ==
  pcUp = "send" /\ ~chClosed /\ Len(writeQueue) = WriteQueueSize

\* The state the shutdown sequence is to reach.
ShutDown ==
  /\ chClosed
  /\ conn = "closed"
  /\ sessDone
  /\ idleTimer # "armed"

C7_UpstreamClosedAfterShutdown ==
  (pcRead = "returned") => (apiConn = "closed")

\* C8: a read error on the upstream socket leads to the device socket and the
\* write queue being closed.
C8_UpstreamErrorLeadsToShutdown ==
  (pcUp = "returned") ~> (conn = "closed" /\ chClosed)

\* C9: whatever shutdown triggers occur and however they interleave, the
\* write queue is closed at most once and no task of the connection fails on
\* a resource that is already closed (a close of, or a send on, the closed
\* write queue).
C9_ShutdownIdempotent ==
  /\ closeCount <= 1
  /\ panics = {}

\* C10: after the connection context is cancelled, the device read loop, the
\* upstream read loop, the write loop and the idle watcher all return.
C10_CancelEndsAllTasks ==
  ctxDone ~> (/\ pcRead = "returned"
              /\ pcUp \in {"returned", "panicked"}
              /\ pcWrite = "returned"
              /\ pcIdle = "returned")

\* ------------------------------------------------------------------ pacing
\* The instant at which the audio enqueued since the first delta of the
\* response in progress has been played.
PlaybackEnd == firstDeltaTs + totalOpusDuration

\* This step is handleResponseDone returning the tts stop to
\* handleRealtimeApiEvent, which enqueues it next.
StopReturned ==
  /\ pcUp \in {"read", "sleep"}
  /\ pcUp' = "check"
  /\ upTodo' # <<>> /\ IsTts(Head(upTodo'), "stop")

\* C11: when the connection was shut down while the upstream read loop is
\* in the pacing sleep, the sleep ends without the rest of the wait: the
\* clock does not have to reach the end of the sleep for the loop to go on.
C11_SleepCancellable ==
  [][(pcUp = "sleep" /\ pcUp' # "sleep" /\ conn = "closed" /\ sessDone)
     => now' = now]_vars

\* C12: on response.done read at time now', the handler sleeps until
\* firstDeltaTs + totalOpusDuration when that instant lies ahead, and returns
\* the tts stop without delay when it has passed, when no delta arrived or
\* when no frame was enqueued; after a sleep the stop is returned at the end
\* of the playback time, not before.
C12_PacingGate ==
  [][/\ (pcUp = "read" /\ nUp' # nUp /\ upIn'[1].type = "response.done")
          => IF firstDeltaTs # 0 /\ totalOpusDuration # 0 /\ now' < PlaybackEnd
             THEN pcUp' = "sleep" /\ wakeAt' = PlaybackEnd /\ upTodo' = <<>>
             ELSE StopReturned
     /\ (pcUp = "sleep" /\ pcUp' # "sleep")
          => StopReturned /\ now' >= PlaybackEnd /\ now' = wakeAt]_vars

\* The upstream loop slept to the end of the playback time and now holds the
\* tts stop.
C12_Witness ==
  /\ pcUp = "check" /\ IsTts(Head(upTodo), "stop")
  /\ wakeAt > 0 /\ now = wakeAt

\* C13 as stated: when the tts stop of a response with audio is returned, the
\* audio enqueued lasts at least as long as the wall-clock time since the
\* first delta.
C13_AudioCoversWallClock ==
  [][(StopReturned /\ firstDeltaTs # 0)
     => totalOpusDuration >= now' - firstDeltaTs]_vars

\* C13 as amended: when the tts stop of a response with audio is returned,
\* the wall-clock time since the first delta is at least the duration of the
\* audio enqueued.
C13_WallClockCoversAudio ==
  [][(StopReturned /\ firstDeltaTs # 0)
     => now' - firstDeltaTs >= totalOpusDuration]_vars

\* A response whose audio frame was enqueued got its tts stop without a
\* sleep, the playback time being over when response.done arrived.
C13_Witness ==
  /\ pcUp = "check" /\ IsTts(Head(upTodo), "stop") /\ wakeAt = 0
  /\ \E i \in 1..Len(written) :
       written[i].type = "bin" /\ written[i].resp = Head(upTodo).resp

\* ------------------------------------------------------------- translation
\* This step is the device read loop reading a message of one of the kinds.
DevRead(kinds) == nDev' # nDev /\ devIn'[1].kind \in kinds

\* This step is the upstream read loop reading a message of the type and
\* running its handler.
UpHandled(type) == nUp' # nUp /\ upIn'[1].type = type

\* This step writes one more message, an error event, on the device socket.
ErrorWritten ==
  /\ Len(written') = Len(written) + 1
  /\ written'[Len(written')].type = "error"

\* C14: a binary audio frame read before any hello makes the gateway write an
\* error event to the device, and the device socket stays open.
C14_AudioBeforeHelloIsError ==
  [][(DevRead({"bin", "binBad"}) /\ audioConverter = Nil)
     => ErrorWritten /\ conn' = "open"]_vars

\* C15: a text message that is no JSON or has an unknown type makes the
\* gateway write exactly one error event "invalid event format"; the socket
\* stays open, the read loop goes on reading, nothing is sent upstream and
\* the session is as before.
C15_InvalidTextIsError ==
  [][DevRead({"malformed", "unknownType"})
     => /\ written' = Append(written, ServerEventError("invalid event format"))
        /\ conn' = "open" /\ pcRead' = "read"
        /\ apiSent' = apiSent
        /\ UNCHANGED <<CliConfig, audioConverter, sessID, sessDone,
                       firstDeltaTs, totalOpusDuration, writeQueue>>]_vars

\* After a hello, a text message of unknown type was answered with the error
\* event and the socket is open.
C15_Witness ==
  /\ devIn # Nil /\ devIn[1].kind = "unknownType"
  /\ CliConfig # Nil /\ conn = "open"
  /\ written # <<>> /\ written[Len(written)].error = "invalid event format"

\* C16: a device frame that does not decode makes the gateway write an error
\* event to the device, an upstream delta that does not base64-decode makes
\* it enqueue one, and in both cases the socket stays open and no audio
\* frame is produced.
C16_AudioFailureIsError ==
  [][/\ (DevRead({"binBad"}) /\ audioConverter # Nil)
          => ErrorWritten /\ conn' = "open" /\ apiSent' = apiSent
     /\ (UpHandled("response.audio.delta") /\ upIn'[1].bytes < 0)
          => /\ Len(upTodo') = 1 /\ upTodo'[1].type = "error"
             /\ conn' = "open"]_vars

\* C17: for every abort read from the device exactly one response.cancel is
\* written on the upstream socket.
C17_AbortForwarded ==
  [][DevRead({"abort"})
     => apiSent' = Append(apiSent, [type |-> "response.cancel"])]_vars

\* C18: a hello whose format, sample_rate, channels and frame_duration are
\* all non-zero stores them in the session with frame size
\* frame_duration * sample_rate / 1000, builds the converter and writes
\* exactly one session.update upstream, with modalities text and audio, pcm16
\* in and out, tool_choice required, 4096 output tokens and server_vad.
C18_HelloConfiguresSession ==
  [][(/\ DevRead({"hello"})
      /\ devIn'[1].format # "" /\ devIn'[1].sr # 0
      /\ devIn'[1].ch # 0 /\ devIn'[1].fd # 0)
     => LET m == devIn'[1] IN
        /\ CliConfig' = <<[Format |-> m.format, SampleRate |-> m.sr,
                           Channels |-> m.ch, FrameDuration |-> m.fd,
                           FrameSize |-> (m.fd * m.sr) \div 1000]>>
        /\ audioConverter' # Nil
        /\ apiSent' = Append(apiSent,
             [type |-> "session.update", modalities |-> <<"text", "audio">>,
              input_audio_format |-> "pcm16", output_audio_format |-> "pcm16",
              tool_choice |-> "required", max_response_output_tokens |-> 4096,
              turn_detection |-> "server_vad"])]_vars

\* C19: the handler of session.updated passes exactly one hello to the write
\* queue, with the device's format, sample_rate 24000, channels 1,
\* frame_duration 60 and the upstream's session id; the handler of
\* session.created stores the session id and passes nothing.
C19_SessionUpdatedGivesHello ==
  [][/\ UpHandled("session.updated")
          => /\ sessID' = UpstreamSessionID
             /\ Len(upTodo') = 1
             /\ upTodo'[1].type = "hello"
             /\ upTodo'[1].session_id = UpstreamSessionID
             /\ CliConfig # Nil
             /\ upTodo'[1].audio_params =
                  <<[format |-> CliConfig[1].Format, sample_rate |-> 24000,
                     channels |-> 1, frame_duration |-> 60]>>
     /\ UpHandled("session.created")
          => sessID' = UpstreamSessionID /\ upTodo' = <<>> /\ pcUp' = "read"]_vars

\* The text that consists of the one character U+1F60A.
EmojiText == "U+1F60A"

\* ev is the device event of the type, state and text.
IsEvent(ev, type, state, text) ==
  ev.type = type /\ ev.state = state /\ ev.text = text

\* C20: the handlers pass to the write queue what the table says:
\* committed a tts start; transcription completed an stt with the transcript
\* and then an llm with the emoji and emotion happy; audio_transcript.done a
\* tts sentence_start with the transcript; content_part.done a tts
\* sentence_end with the part's transcript; error a device error.
C20_TranslationTable ==
  [][/\ UpHandled("input_audio_buffer.committed")
          => Len(upTodo') = 1 /\ IsEvent(upTodo'[1], "tts", "start", "")
     /\ UpHandled("conversation.item.input_audio_transcription.completed")
          => /\ Len(upTodo') = 2
             /\ IsEvent(upTodo'[1], "stt", "", upIn'[1].text)
             /\ IsEvent(upTodo'[2], "llm", "", EmojiText)
             /\ upTodo'[2].emotion = "happy"
     /\ UpHandled("response.audio_transcript.done")
          => /\ Len(upTodo') = 1
             /\ IsEvent(upTodo'[1], "tts", "sentence_start", upIn'[1].text)
     /\ UpHandled("response.content_part.done")
          => /\ Len(upTodo') = 1
             /\ IsEvent(upTodo'[1], "tts", "sentence_end", upIn'[1].text)
     /\ UpHandled("error")
          => Len(upTodo') = 1 /\ upTodo'[1].type = "error"]_vars

\* The upstream types that have no row in the translation table: a handler
\* that returns (nil, nil), no case in the switch, or rejected by
\* UnmarshalServerEvent.
IgnoredTypes ==
  {"response.created", "response.audio.done", "response.text.delta", "unknown"}

\* C21: an upstream message of a type without a row in the translation
\* table, or of an unknown type, passes nothing to the write queue, leaves
\* the session, the converter and the pacing clock as they were, writes
\* nothing, keeps both sockets open, and the loop reads the next message.
C21_OtherUpstreamIgnored ==
  [][(nUp' # nUp /\ upIn'[1].type \in IgnoredTypes)
     => /\ upTodo' = <<>> /\ pcUp' = "read"
        /\ conn' = "open" /\ apiConn' = "open"
        /\ UNCHANGED <<writeQueue, written, apiSent, CliConfig, sessID,
                       audioConverter, firstDeltaTs, totalOpusDuration,
                       sessDone, closed, chClosed, panics>>]_vars

\* In the middle of a response (the pacing clock is running) a message of
\* unknown type was read and the loop is back at its read.
C21_Witness ==
  /\ upIn # Nil /\ upIn[1].type = "unknown"
  /\ CliConfig # Nil /\ firstDeltaTs # 0
  /\ pcUp = "read" /\ conn = "open"

\* ------------------------------------------------------------ device audio
\* The numbers of the device messages whose append events are in seq.
AppendSrcs(seq) ==
  [i \in 1..Len(seq) |-> IF seq[i].type = "input_audio_buffer.append"
                         THEN seq[i].src ELSE 0]

\* C22: once a hello has built the converter and while the upstream socket
\* is up, a binary frame that decodes makes the gateway write exactly one
\* input_audio_buffer.append upstream, after those of the frames read before
\* it; an empty frame writes nothing upstream and nothing to the device; a
\* frame that does not decode writes nothing upstream.
C22_OneAppendPerFrame ==
  [][(audioConverter # Nil /\ apiConn = "open")
     => /\ DevRead({"bin"})
             => /\ apiSent' = Append(apiSent, [type |-> "input_audio_buffer.append",
                                               src |-> nDev'])
                /\ \A i \in 1..Len(apiSent) : AppendSrcs(apiSent)[i] < nDev'
                /\ written' = written
        /\ DevRead({"binEmpty"}) => apiSent' = apiSent /\ written' = written
        /\ DevRead({"binBad"}) => apiSent' = apiSent]_vars

\* After a hello: a frame, an empty frame and another frame were read, and
\* the appends of the two frames are upstream in that order.
C22_Witness ==
  /\ nDev = 4 /\ devIn[1].kind = "bin"
  /\ Len(apiSent) = 3
  /\ AppendSrcs(apiSent) = <<0, 2, 4>>
  /\ written = <<>>

\* --------------------------------------------------------------- idle timer
\* C23: on a live connection with an idle timeout, once more than the
\* timeout has passed since the last device message was read and the last
\* event was drained from the write queue, the idle timer has expired for
\* the idle watcher; and the watcher, when it takes the expiry, writes the
\* error event "too long without operation" and then closes the device
\* socket.
C23_IdleWatcherFires ==
  /\ []((/\ idleTimeout # 0 /\ pcRead = "read" /\ conn = "open"
         /\ now - lastOp > idleTimeout)
          => (timerC \/ pcIdle = "returned"))
  /\ [][(pcIdle = "wait" /\ pcIdle' = "returned")
        => /\ conn = "open"
                => written' = Append(written,
                                ServerEventError("too long without operation"))
           /\ conn' = "closed"]_vars

\* ------------------------------------------------------------------- codecs
\* What marshalling may change in an event: the type and the event id that
\* SetBaseEventType assigns, and an unset turn detection of a session.update,
\* which is written as null.
Normalized(e) ==
  [e EXCEPT !.type = e.variant,
            !.id = IF e.proto = "openai.server" /\ e.id = "" THEN UniqueID ELSE e.id,
            !.td = IF e.variant = "session.update" /\ e.td = Nil
                   THEN <<[type |-> ClientTurnDetectionTypeUnspecified]>>
                   ELSE e.td]

\* C24: an event of any variant of the three vocabularies that was marshalled
\* is accepted by the unmarshal function of its vocabulary and decodes to
\* the same variant with the same field values, defaults apart.
C24_CodecRoundTrip ==
  (codec # Nil /\ codec[1].pc = "decoded" /\ codec[1].ev # NoEvent)
  => codec[1].out = Decoded(Normalized(codec[1].ev))


\* A session.update text has been decoded.
SessionUpdateDecoded ==
  /\ codec # Nil /\ codec[1].pc = "decoded" /\ codec[1].proto = "openai.client"
  /\ Get(codec[1].wire, "type", "") = "session.update"

\* C27: decoding a session.update succeeds, and its turn detection is the
\* unspecified-type sentinel when the session holds turn_detection: null, is
\* left unset when the session does not hold the key, and is the decoded
\* object when the key holds an object.
C27_TurnDetectionNull ==
  SessionUpdateDecoded
  => /\ codec[1].out.ok
     /\ LET w == codec[1].wire
            td == codec[1].out.ev.td IN
          IF "session.turn_detection" \notin DOMAIN w THEN td = Nil
          ELSE IF w["session.turn_detection"] = Nil
               THEN td = <<[type |-> ClientTurnDetectionTypeUnspecified]>>
               ELSE td = w["session.turn_detection"]

\* A text with turn_detection: null has been decoded to the sentinel.
C27_Witness ==
  /\ SessionUpdateDecoded
  /\ codec[1].ev = NoEvent
  /\ "session.turn_detection" \in DOMAIN codec[1].wire
  /\ codec[1].wire["session.turn_detection"] = Nil
  /\ codec[1].out.ok
  /\ codec[1].out.ev.td = <<[type |-> ClientTurnDetectionTypeUnspecified]>>


\* ----------------------------------------------------------------- IntOrInf
\* C26: an IntOrInf value that is marshalled and unmarshalled is the same
\* value again; Inf is written as the string "inf" and every other integer as
\* a JSON number, and the text "inf" decodes to Inf.
C26_IntOrInfRoundTrip ==
  (codec # Nil /\ codec[1].pc = "decoded")
  => /\ codec[1].val # Nil
          => /\ codec[1].out = [ok |-> TRUE, ev |-> codec[1].val[1]]
             /\ codec[1].val[1] = Inf => codec[1].text = InfText
             /\ codec[1].val[1] # Inf => IsJSONInt(codec[1].text)
     /\ codec[1].text = InfText => codec[1].out = [ok |-> TRUE, ev |-> Inf]

\* Inf and a negative number of several digits have both made the round trip.
C26_Witness ==
  /\ codec # Nil /\ codec[1].pc = "decoded" /\ codec[1].val # Nil
  /\ \/ codec[1].val[1] = Inf /\ codec[1].text = InfText /\ codec[1].out.ev = Inf
     \/ /\ codec[1].val[1] = 0 - 4096
        /\ codec[1].text = <<"-", "4", "0", "9", "6">>
        /\ codec[1].out.ev = 0 - 4096


\* ---------------------------------------------------------------- resampler
\* C25: when the whole input has been handed to Handle in chunks, whatever
\* their lengths, the outputs put together are those of one Handle call with
\* the whole input: the same places, laid through the same input samples.
C25_ChunkedEqualsMonolithic ==
  (resampler # Nil /\ resampler[1].fed = resampler[1].n)
  => resampler[1].opcm = Monolithic(resampler[1].isr, resampler[1].osr, resampler[1].n)


\* ------------------------------------------------------------------- panics
\* C28: no task dies of a panic raised while an event is translated, and
\* when the handler of a device message panics the device is written an error
\* event.
C28_PanicRecovered ==
  /\ [](panics = {})
  /\ [][(nDev' # nDev /\ UnmarshalClientEvent(devIn'[1]) = ""
             /\ DispatchHandler(devIn'[1]).panic)
        => /\ Len(written') = Len(written) + 1
           /\ written'[Len(written')].type = "error"]_vars


\* -------------------------------------------------------------------- hello
\* C29: once a hello has set the session's audio parameters and its
\* converter, no device message changes the parameters or replaces the
\* converter with its leftover PCM.
C29_DeviceAudioImmutable ==
  [][/\ CliConfig # Nil => CliConfig' = CliConfig
     /\ (audioConverter # Nil /\ nDev' # nDev) => audioConverter' = audioConverter]_vars


\* C30: a hello without audio params, or with a zero sample_rate, channels
\* or frame_duration or an empty format, is answered with an error event;
\* nothing is sent upstream, the session's audio parameters and converter
\* are as before, the socket stays open and the read loop goes on reading.
C30_InvalidHelloRejected ==
  [][(nDev' # nDev /\ devIn'[1] \in BadHellos)
     => /\ written' = Append(written, ServerEventError("invalid audio params"))
        /\ apiSent' = apiSent
        /\ UNCHANGED <<CliConfig, audioConverter>>
        /\ conn' = "open" /\ pcRead' = "read"]_vars

\* After a valid hello, a hello with channels 0 was answered with the error
\* event, and the session is the one the valid hello made.
C30_Witness ==
  /\ devIn # Nil /\ devIn[1] = [Hello(60) EXCEPT !.ch = 0]
  /\ CliConfig # Nil /\ CliConfig[1].FrameDuration = 20 /\ audioConverter # Nil
  /\ conn = "open" /\ pcRead = "read"
  /\ Len(apiSent) = 1
  /\ written # <<>> /\ written[Len(written)].error = "invalid audio params"


\* ------------------------------------------------------------- pacing clock
\* This step ends a response: the handler of response.done has reset the clock.
ResponseEnds == curResp' # curResp

\* C31: the timestamp of the first delta is 0 exactly while no
\* response.audio.delta was handled in the response in progress: it is 0
\* before the first upstream message, a delta makes it non-zero, the end of
\* response.done makes it and the total duration 0, and no other step
\* changes it.
C31_FirstDeltaTsIffDelta ==
  /\ [](nUp = 0 => firstDeltaTs = 0)
  /\ [][/\ UpHandled("response.audio.delta") => firstDeltaTs' # 0
        /\ ResponseEnds => (firstDeltaTs' = 0 /\ totalOpusDuration' = 0)
        /\ (~UpHandled("response.audio.delta") /\ ~ResponseEnds)
             => firstDeltaTs' = firstDeltaTs]_vars

\* A response with audio has ended and the clock is back at 0.
C31_Witness ==
  /\ curResp = 2 /\ upIn # Nil /\ upIn[1].type = "response.done"
  /\ firstDeltaTs = 0 /\ totalOpusDuration = 0
  /\ \E i \in 1..Len(written) : written[i].type = "bin" /\ written[i].resp = 1


\* The binary frames of the response in progress in seq.
BinOfResp(seq) ==
  {i \in 1..Len(seq) : seq[i].type = "bin" /\ seq[i].resp = curResp}

\* The binary frames WriteRespEvent has taken since the last response.done,
\* on a connection that stays up: those in the queue, those the write loop
\* has written, and the one a running WriteRespEvent call is sending.
BinEnqueued ==
  Cardinality(BinOfResp(writeQueue)) + Cardinality(BinOfResp(written))
  + (IF pcUp = "send" /\ Head(upTodo).type = "bin" THEN 1 ELSE 0)

\* C32: the total duration of the pacing clock is the number of binary frames
\* enqueued since the last response.done times the frame_duration of the
\* device.
C32_TotalIsFramesTimesDuration ==
  totalOpusDuration
    = BinEnqueued * (IF CliConfig = Nil THEN 0 ELSE CliConfig[1].FrameDuration)


\* --------------------------------------------------------------- transcoder
\* The 16-bit samples in a PCM payload of b bytes.
DeltaSamples(b) == b \div 2

\* This step is ResolvePCM on a payload that base64-decodes.
ResolvePCMCall ==
  /\ UpHandled("response.audio.delta")
  /\ upIn'[1].bytes >= 0 /\ audioConverter # Nil

\* C33: a ResolvePCM call leaves fewer than chunk samples over, hands
\* floor((leftover before + samples of the delta) / chunk) frames to the
\* callback, and the samples of the frames and of the new leftover are
\* those of the old leftover and of the delta, in the order of arrival.
C33_ChunkingConservesSamples ==
  [][ResolvePCMCall
     => LET c == audioConverter[1]
            chunk == (c.DownDuration * c.DownSampleRate) \div 1000
            all == AppendRun(c.delta, curResp, DeltaSamples(upIn'[1].bytes))
        IN /\ audioConverter' # Nil
           /\ RunLen(audioConverter'[1].delta) < chunk
           /\ Len(upTodo') = RunLen(all) \div chunk
           /\ \A i \in 1..Len(upTodo') :
                /\ upTodo'[i].type = "bin"
                /\ upTodo'[i].dur = c.DownDuration
                /\ upTodo'[i].resps
                     = RunResps(TakeRuns(DropRuns(all, (i - 1) * chunk), chunk))
           /\ audioConverter'[1].delta = DropRuns(all, Len(upTodo') * chunk)]_vars


\* ---------------------------------------------------------------- resampler
\* The counters of samples written and consumed do not go down.
CountersNeverDecrease ==
  [][(resampler # Nil /\ resampler' # Nil)
     => /\ resampler'[1].lws >= resampler[1].lws
        /\ resampler'[1].lcs >= resampler[1].lcs]_vars

\* C34 as stated: after any Handle calls the cache holds fewer than 16
\* samples, and the counters never decrease.
C34_CacheBelow16 ==
  /\ [](resampler # Nil => Len(resampler[1].lcache) < 16)
  /\ CountersNeverDecrease

\* C34 as amended: the cache holds all samples accepted and not consumed, which
\* are at least 16 once more than 16 were accepted and fewer than
\* 16 + isr / osr at any time, and the counters never decrease.
C34_CacheAtLeast16 ==
  /\ [](resampler # Nil
         => LET v == resampler[1] IN
            /\ v.lcs + Len(v.lcache) > 16 => Len(v.lcache) >= 16
            /\ (Len(v.lcache) - 16) * v.osr < v.isr)
  /\ CountersNeverDecrease

\* At 48000 -> 24000 the cache holds 17 samples after outputs were made.
C34_Witness ==
  /\ resampler # Nil /\ resampler[1].isr = 48000
  /\ resampler[1].lws > 0 /\ resampler[1].lcs > 0
  /\ Len(resampler[1].lcache) = 17


\* This step is a Handle call, between different rates, with 1 to 3 samples.
SmallChunk ==
  /\ resampler # Nil /\ resampler' # Nil
  /\ resampler[1].isr # resampler[1].osr
  /\ resampler'[1].fed - resampler[1].fed \in 1..3

\* C35: a Handle call with fewer than 4 samples returns no output and leaves
\* cache and counters as they were, and its samples are not lost: what was
\* handed in so far is still consumed or waiting for the calls to come.
C35_SmallChunkNotLost ==
  [][SmallChunk
     => /\ resampler'[1].opcm = resampler[1].opcm
        /\ resampler'[1].lcache = resampler[1].lcache
        /\ resampler'[1].lws = resampler[1].lws
        /\ resampler'[1].lcs = resampler[1].lcs
        /\ resampler'[1].lcs + Len(resampler'[1].lcache) = resampler'[1].fed]_vars


\* C36: handling response.done leaves the converter with its leftover PCM as
\* it was and hands no frame to the callback; the leftover is the head of
\* what the next delta is chunked from, so it goes out in the first frame
\* made after it.
C36_LeftoverCrossesResponses ==
  [][/\ (UpHandled("response.done") \/ ResponseEnds)
          => /\ audioConverter' = audioConverter
             /\ \A i \in 1..Len(upTodo') : upTodo'[i].type # "bin"
     /\ (ResolvePCMCall /\ upIn'[1].bytes % 2 = 0)
          => LET c == audioConverter[1]
                 chunk == (c.DownDuration * c.DownSampleRate) \div 1000
             IN /\ Len(upTodo') * chunk + RunLen(audioConverter'[1].delta)
                     = RunLen(c.delta) + DeltaSamples(upIn'[1].bytes)
                /\ (c.delta # <<>> /\ upTodo' # <<>>)
                     => RunResps(c.delta) \subseteq upTodo'[1].resps]_vars

\* The device was written a frame that holds PCM of response 1 and of
\* response 2.
C36_Witness ==
  \E i \in 1..Len(written) :
    written[i].type = "bin" /\ written[i].resps = {1, 2} /\ written[i].resp = 2


\* -------------------------------------------------------------- concurrency
\* C37: the channel send of WriteRespEvent, whenever it is made, puts the
\* event on a write queue that is not closed: a call that meets the close
\* has returned "write queue closed" at its test of the closed flag.
C37_NoSendAfterClose ==
  [][(pcUp = "send" /\ pcUp' # "send")
     => /\ ~chClosed
        /\ nEnq' = nEnq + 1
        /\ pcUp' # "panicked"]_vars


\* C38: at most one task at a time is inside a write of a data message on
\* the device socket.
C38_OneSocketWriter == Cardinality(SocketWriters) <= 1


\* C39: in passthrough mode a loop that has seen a read error and signals on
\* the done channel eventually returns, and where it is ReadLoop the device
\* connection is then closed by its deferred Close.
C39_ReadErrorLeadsToClose ==
  /\ (pcRead = "signal") ~> (pcRead = "returned" /\ conn = "closed")
  /\ (pcWrite = "signal") ~> (pcWrite = "returned")


\* C40: every binary frame written to the device covers the frame_duration
\* of the hello the gateway has written to the device, whatever
\* frame_duration the device's own hello carried.
C40_FramesCoverAnnouncedDuration ==
  \A i, j \in 1..Len(written) :
    (written[i].type = "bin" /\ written[j].type = "hello")
      => written[i].dur = written[j].audio_params[1].frame_duration

====
